---- MODULE Spec2Model ----
(***************************************************************************)
(* The contract review pipeline of ContractReviewCrew (src/crew/crew.py)   *)
(* and the three agents it drives (src/agents/*.py).                       *)
(*                                                                         *)
(* One review is a linear run: the input check, four stages that each ask  *)
(* an inference client for a JSON object, the local prioritization, and    *)
(* the derivation of the executive summary and the next steps.  The client *)
(* is the environment: every call either raises or returns a JSON object   *)
(* drawn from a bounded set that holds well-formed and malformed objects.  *)
(***************************************************************************)
EXTENDS Integers, Sequences, FiniteSets, TLC

(***************************************************************************)
(* Bounds of the model.                                                    *)
(***************************************************************************)
\* longest contract text, in characters
MaxTextLen == 2
\* largest count (risks, high-severity risks) given to the risk-level rule
MaxCount == 6
\* largest overall_risk_score given to the quality rule
MaxScore == 6
\* longest list of redline suggestions given to prioritize_changes
MaxSuggestions == 4

(***************************************************************************)
(* Python values.  A JSON value is tagged with its Python type: None, int, *)
(* str, list, dict.  A str is its sequence of characters; a message that   *)
(* the code builds from a literal is kept as one symbol, since nothing     *)
(* looks inside it.  A dict is a function from its keys.                   *)
(***************************************************************************)
JNull == [t |-> "null"]
JInt(n) == [t |-> "int", v |-> n]
JStr(s) == [t |-> "str", v |-> s]
JList(xs) == [t |-> "list", v |-> xs]
JDict(d) == [t |-> "dict", v |-> d]
JBool(b) == [t |-> "bool", v |-> b]

EmptyFcn == [k \in {} |-> k]
EmptyDict == JDict(EmptyFcn)
EmptyList == JList(<<>>)
EmptyStr == JStr(<<>>)

IsDict(x) == x.t = "dict"
IsList(x) == x.t = "list"
IsStr(x) == x.t = "str"
IsBool(x) == x.t = "bool"
\* isinstance(x, int): bool is a subclass of int
IsInt(x) == x.t \in {"int", "bool"}
\* the number x counts as in a comparison or in arithmetic: True is 1, False is 0
IntOf(x) == IF IsBool(x) THEN (IF x.v THEN 1 ELSE 0) ELSE x.v

\* key in d, for a dict d
HasKey(d, k) == k \in DOMAIN d.v
\* d.get(k, default), for a dict d; on any other value .get raises AttributeError
Get(d, k, default) == IF HasKey(d, k) THEN d.v[k] ELSE default
\* len(x), and iterating x, raise TypeError on None, on a number and on a bool
LenRaises(x) == x.t \in {"null", "int", "bool"}
PyLen(x) == IF IsDict(x) THEN Cardinality(DOMAIN x.v) ELSE Len(x.v)
\* a > n, a >= n, a < n against an int literal raise TypeError unless a is a
\* number; a bool is one
CmpRaises(a) == ~IsInt(a)

(***************************************************************************)
(* str.lower(), str.strip() and the substring test `needle in text`.       *)
(***************************************************************************)
\* A character a TLA+ string cannot hold (one above U+00FF, and the grave
\* accent) is one symbol that names its code point, "U+3000"; the tables below
\* give such characters by code point.
HexDigit == <<"0", "1", "2", "3", "4", "5", "6", "7",
              "8", "9", "A", "B", "C", "D", "E", "F">>
RECURSIVE Hex(_, _)
Hex(n, width) ==
    IF width = 0 THEN "" ELSE Hex(n \div 16, width - 1) \o HexDigit[(n % 16) + 1]
Symbol(n) == "U+" \o Hex(n, IF n < 65536 THEN 4 ELSE IF n < 1048576 THEN 5 ELSE 6)
SymbolRanges(ranges) == UNION {{Symbol(n) : n \in r[1]..r[2]} : r \in ranges}

\* str.lower() of one character, for the characters it changes to one other
\* character (Unicode 14.0.0, the database of Python 3.11): those with a side
\* up to U+00FF as pairs <<character, lowercase>>, the others as runs
\* <<first, last, step, shift>> of code points, each shifted to its lowercase
LowerNarrow ==
    {<<"A", "a">>, <<"B", "b">>, <<"C", "c">>, <<"D", "d">>, <<"E", "e">>,
     <<"F", "f">>, <<"G", "g">>, <<"H", "h">>, <<"I", "i">>, <<"J", "j">>,
     <<"K", "k">>, <<"L", "l">>, <<"M", "m">>, <<"N", "n">>, <<"O", "o">>,
     <<"P", "p">>, <<"Q", "q">>, <<"R", "r">>, <<"S", "s">>, <<"T", "t">>,
     <<"U", "u">>, <<"V", "v">>, <<"W", "w">>, <<"X", "x">>, <<"Y", "y">>,
     <<"Z", "z">>, <<"À", "à">>, <<"Á", "á">>, <<"Â", "â">>, <<"Ã", "ã">>,
     <<"Ä", "ä">>, <<"Å", "å">>, <<"Æ", "æ">>, <<"Ç", "ç">>, <<"È", "è">>,
     <<"É", "é">>, <<"Ê", "ê">>, <<"Ë", "ë">>, <<"Ì", "ì">>, <<"Í", "í">>,
     <<"Î", "î">>, <<"Ï", "ï">>, <<"Ð", "ð">>, <<"Ñ", "ñ">>, <<"Ò", "ò">>,
     <<"Ó", "ó">>, <<"Ô", "ô">>, <<"Õ", "õ">>, <<"Ö", "ö">>, <<"Ø", "ø">>,
     <<"Ù", "ù">>, <<"Ú", "ú">>, <<"Û", "û">>, <<"Ü", "ü">>, <<"Ý", "ý">>,
     <<"Þ", "þ">>, <<"U+0178", "ÿ">>, <<"U+1E9E", "ß">>, <<"U+212A", "k">>,
     <<"U+212B", "å">> }
LowerRuns ==
    {<<\h0100, \h012E, 2, 1>>, <<\h0132, \h0136, 2, 1>>,
     <<\h0139, \h0147, 2, 1>>, <<\h014A, \h0176, 2, 1>>,
     <<\h0179, \h017D, 2, 1>>, <<\h0181, \h0181, 1, 210>>,
     <<\h0182, \h0184, 2, 1>>, <<\h0186, \h0186, 1, 206>>,
     <<\h0187, \h0187, 1, 1>>, <<\h0189, \h018A, 1, 205>>,
     <<\h018B, \h018B, 1, 1>>, <<\h018E, \h018E, 1, 79>>,
     <<\h018F, \h018F, 1, 202>>, <<\h0190, \h0190, 1, 203>>,
     <<\h0191, \h0191, 1, 1>>, <<\h0193, \h0193, 1, 205>>,
     <<\h0194, \h0194, 1, 207>>, <<\h0196, \h0196, 1, 211>>,
     <<\h0197, \h0197, 1, 209>>, <<\h0198, \h0198, 1, 1>>,
     <<\h019C, \h019C, 1, 211>>, <<\h019D, \h019D, 1, 213>>,
     <<\h019F, \h019F, 1, 214>>, <<\h01A0, \h01A4, 2, 1>>,
     <<\h01A6, \h01A6, 1, 218>>, <<\h01A7, \h01A7, 1, 1>>,
     <<\h01A9, \h01A9, 1, 218>>, <<\h01AC, \h01AC, 1, 1>>,
     <<\h01AE, \h01AE, 1, 218>>, <<\h01AF, \h01AF, 1, 1>>,
     <<\h01B1, \h01B2, 1, 217>>, <<\h01B3, \h01B5, 2, 1>>,
     <<\h01B7, \h01B7, 1, 219>>, <<\h01B8, \h01B8, 1, 1>>,
     <<\h01BC, \h01BC, 1, 1>>, <<\h01C4, \h01C4, 1, 2>>,
     <<\h01C5, \h01C5, 1, 1>>, <<\h01C7, \h01C7, 1, 2>>,
     <<\h01C8, \h01C8, 1, 1>>, <<\h01CA, \h01CA, 1, 2>>,
     <<\h01CB, \h01DB, 2, 1>>, <<\h01DE, \h01EE, 2, 1>>,
     <<\h01F1, \h01F1, 1, 2>>, <<\h01F2, \h01F4, 2, 1>>,
     <<\h01F6, \h01F6, 1, -97>>, <<\h01F7, \h01F7, 1, -56>>,
     <<\h01F8, \h021E, 2, 1>>, <<\h0220, \h0220, 1, -130>>,
     <<\h0222, \h0232, 2, 1>>, <<\h023A, \h023A, 1, 10795>>,
     <<\h023B, \h023B, 1, 1>>, <<\h023D, \h023D, 1, -163>>,
     <<\h023E, \h023E, 1, 10792>>, <<\h0241, \h0241, 1, 1>>,
     <<\h0243, \h0243, 1, -195>>, <<\h0244, \h0244, 1, 69>>,
     <<\h0245, \h0245, 1, 71>>, <<\h0246, \h024E, 2, 1>>,
     <<\h0370, \h0372, 2, 1>>, <<\h0376, \h0376, 1, 1>>,
     <<\h037F, \h037F, 1, 116>>, <<\h0386, \h0386, 1, 38>>,
     <<\h0388, \h038A, 1, 37>>, <<\h038C, \h038C, 1, 64>>,
     <<\h038E, \h038F, 1, 63>>, <<\h0391, \h03A1, 1, 32>>,
     <<\h03A3, \h03AB, 1, 32>>, <<\h03CF, \h03CF, 1, 8>>,
     <<\h03D8, \h03EE, 2, 1>>, <<\h03F4, \h03F4, 1, -60>>,
     <<\h03F7, \h03F7, 1, 1>>, <<\h03F9, \h03F9, 1, -7>>,
     <<\h03FA, \h03FA, 1, 1>>, <<\h03FD, \h03FF, 1, -130>>,
     <<\h0400, \h040F, 1, 80>>, <<\h0410, \h042F, 1, 32>>,
     <<\h0460, \h0480, 2, 1>>, <<\h048A, \h04BE, 2, 1>>,
     <<\h04C0, \h04C0, 1, 15>>, <<\h04C1, \h04CD, 2, 1>>,
     <<\h04D0, \h052E, 2, 1>>, <<\h0531, \h0556, 1, 48>>,
     <<\h10A0, \h10C5, 1, 7264>>, <<\h10C7, \h10C7, 1, 7264>>,
     <<\h10CD, \h10CD, 1, 7264>>, <<\h13A0, \h13EF, 1, 38864>>,
     <<\h13F0, \h13F5, 1, 8>>, <<\h1C90, \h1CBA, 1, -3008>>,
     <<\h1CBD, \h1CBF, 1, -3008>>, <<\h1E00, \h1E94, 2, 1>>,
     <<\h1EA0, \h1EFE, 2, 1>>, <<\h1F08, \h1F0F, 1, -8>>,
     <<\h1F18, \h1F1D, 1, -8>>, <<\h1F28, \h1F2F, 1, -8>>,
     <<\h1F38, \h1F3F, 1, -8>>, <<\h1F48, \h1F4D, 1, -8>>,
     <<\h1F59, \h1F5F, 2, -8>>, <<\h1F68, \h1F6F, 1, -8>>,
     <<\h1F88, \h1F8F, 1, -8>>, <<\h1F98, \h1F9F, 1, -8>>,
     <<\h1FA8, \h1FAF, 1, -8>>, <<\h1FB8, \h1FB9, 1, -8>>,
     <<\h1FBA, \h1FBB, 1, -74>>, <<\h1FBC, \h1FBC, 1, -9>>,
     <<\h1FC8, \h1FCB, 1, -86>>, <<\h1FCC, \h1FCC, 1, -9>>,
     <<\h1FD8, \h1FD9, 1, -8>>, <<\h1FDA, \h1FDB, 1, -100>>,
     <<\h1FE8, \h1FE9, 1, -8>>, <<\h1FEA, \h1FEB, 1, -112>>,
     <<\h1FEC, \h1FEC, 1, -7>>, <<\h1FF8, \h1FF9, 1, -128>>,
     <<\h1FFA, \h1FFB, 1, -126>>, <<\h1FFC, \h1FFC, 1, -9>>,
     <<\h2126, \h2126, 1, -7517>>, <<\h2132, \h2132, 1, 28>>,
     <<\h2160, \h216F, 1, 16>>, <<\h2183, \h2183, 1, 1>>,
     <<\h24B6, \h24CF, 1, 26>>, <<\h2C00, \h2C2F, 1, 48>>,
     <<\h2C60, \h2C60, 1, 1>>, <<\h2C62, \h2C62, 1, -10743>>,
     <<\h2C63, \h2C63, 1, -3814>>, <<\h2C64, \h2C64, 1, -10727>>,
     <<\h2C67, \h2C6B, 2, 1>>, <<\h2C6D, \h2C6D, 1, -10780>>,
     <<\h2C6E, \h2C6E, 1, -10749>>, <<\h2C6F, \h2C6F, 1, -10783>>,
     <<\h2C70, \h2C70, 1, -10782>>, <<\h2C72, \h2C72, 1, 1>>,
     <<\h2C75, \h2C75, 1, 1>>, <<\h2C7E, \h2C7F, 1, -10815>>,
     <<\h2C80, \h2CE2, 2, 1>>, <<\h2CEB, \h2CED, 2, 1>>,
     <<\h2CF2, \h2CF2, 1, 1>>, <<\hA640, \hA66C, 2, 1>>,
     <<\hA680, \hA69A, 2, 1>>, <<\hA722, \hA72E, 2, 1>>,
     <<\hA732, \hA76E, 2, 1>>, <<\hA779, \hA77B, 2, 1>>,
     <<\hA77D, \hA77D, 1, -35332>>, <<\hA77E, \hA786, 2, 1>>,
     <<\hA78B, \hA78B, 1, 1>>, <<\hA78D, \hA78D, 1, -42280>>,
     <<\hA790, \hA792, 2, 1>>, <<\hA796, \hA7A8, 2, 1>>,
     <<\hA7AA, \hA7AA, 1, -42308>>, <<\hA7AB, \hA7AB, 1, -42319>>,
     <<\hA7AC, \hA7AC, 1, -42315>>, <<\hA7AD, \hA7AD, 1, -42305>>,
     <<\hA7AE, \hA7AE, 1, -42308>>, <<\hA7B0, \hA7B0, 1, -42258>>,
     <<\hA7B1, \hA7B1, 1, -42282>>, <<\hA7B2, \hA7B2, 1, -42261>>,
     <<\hA7B3, \hA7B3, 1, 928>>, <<\hA7B4, \hA7C2, 2, 1>>,
     <<\hA7C4, \hA7C4, 1, -48>>, <<\hA7C5, \hA7C5, 1, -42307>>,
     <<\hA7C6, \hA7C6, 1, -35384>>, <<\hA7C7, \hA7C9, 2, 1>>,
     <<\hA7D0, \hA7D0, 1, 1>>, <<\hA7D6, \hA7D8, 2, 1>>,
     <<\hA7F5, \hA7F5, 1, 1>>, <<\hFF21, \hFF3A, 1, 32>>,
     <<\h10400, \h10427, 1, 40>>, <<\h104B0, \h104D3, 1, 40>>,
     <<\h10570, \h10570, 1, 39>>, <<\h10571, \h1057A, 1, 39>>,
     <<\h1057C, \h1058A, 1, 39>>, <<\h1058C, \h10592, 1, 39>>,
     <<\h10594, \h10595, 1, 39>>, <<\h10C80, \h10CB2, 1, 64>>,
     <<\h118A0, \h118BF, 1, 32>>, <<\h16E40, \h16E5F, 1, 32>>,
     <<\h1E900, \h1E921, 1, 34>> }
LowerPairs ==
    LowerNarrow \cup
        UNION {{<<Symbol(n), Symbol(n + r[4])>> :
                   n \in {k \in r[1]..r[2] : (k - r[1]) % r[3] = 0}} : r \in LowerRuns}
ToLower ==
    [c \in {p[1] : p \in LowerPairs} |-> (CHOOSE p \in LowerPairs : p[1] = c)[2]]

\* the lowercase of one character out of context; U+0130 is the one character
\* whose lowercase is two characters
LowerChar(c) ==
    IF c = "U+0130" THEN <<"i", "U+0307">>
    ELSE IF c \in DOMAIN ToLower THEN <<ToLower[c]>>
    ELSE <<c>>

\* the characters with the Unicode property Cased, and those with the property
\* Case_Ignorable
CasedNarrow ==
    {"A", "B", "C", "D", "E", "F", "G", "H", "I", "J", "K", "L", "M", "N",
     "O", "P", "Q", "R", "S", "T", "U", "V", "W", "X", "Y", "Z", "a", "b",
     "c", "d", "e", "f", "g", "h", "i", "j", "k", "l", "m", "n", "o", "p",
     "q", "r", "s", "t", "u", "v", "w", "x", "y", "z", "ª", "µ", "º", "À",
     "Á", "Â", "Ã", "Ä", "Å", "Æ", "Ç", "È", "É", "Ê", "Ë", "Ì", "Í", "Î",
     "Ï", "Ð", "Ñ", "Ò", "Ó", "Ô", "Õ", "Ö", "Ø", "Ù", "Ú", "Û", "Ü", "Ý",
     "Þ", "ß", "à", "á", "â", "ã", "ä", "å", "æ", "ç", "è", "é", "ê", "ë",
     "ì", "í", "î", "ï", "ð", "ñ", "ò", "ó", "ô", "õ", "ö", "ø", "ù", "ú",
     "û", "ü", "ý", "þ", "ÿ" }
CasedRanges ==
    {<<\h0100, \h01BA>>, <<\h01BC, \h01BF>>, <<\h01C4, \h0293>>,
     <<\h0295, \h02B8>>, <<\h02C0, \h02C1>>, <<\h02E0, \h02E4>>,
     <<\h0345, \h0345>>, <<\h0370, \h0373>>, <<\h0376, \h0377>>,
     <<\h037A, \h037D>>, <<\h037F, \h037F>>, <<\h0386, \h0386>>,
     <<\h0388, \h038A>>, <<\h038C, \h038C>>, <<\h038E, \h03A1>>,
     <<\h03A3, \h03F5>>, <<\h03F7, \h0481>>, <<\h048A, \h052F>>,
     <<\h0531, \h0556>>, <<\h0560, \h0588>>, <<\h10A0, \h10C5>>,
     <<\h10C7, \h10C7>>, <<\h10CD, \h10CD>>, <<\h10D0, \h10FA>>,
     <<\h10FD, \h10FF>>, <<\h13A0, \h13F5>>, <<\h13F8, \h13FD>>,
     <<\h1C80, \h1C88>>, <<\h1C90, \h1CBA>>, <<\h1CBD, \h1CBF>>,
     <<\h1D00, \h1DBF>>, <<\h1E00, \h1F15>>, <<\h1F18, \h1F1D>>,
     <<\h1F20, \h1F45>>, <<\h1F48, \h1F4D>>, <<\h1F50, \h1F57>>,
     <<\h1F59, \h1F59>>, <<\h1F5B, \h1F5B>>, <<\h1F5D, \h1F5D>>,
     <<\h1F5F, \h1F7D>>, <<\h1F80, \h1FB4>>, <<\h1FB6, \h1FBC>>,
     <<\h1FBE, \h1FBE>>, <<\h1FC2, \h1FC4>>, <<\h1FC6, \h1FCC>>,
     <<\h1FD0, \h1FD3>>, <<\h1FD6, \h1FDB>>, <<\h1FE0, \h1FEC>>,
     <<\h1FF2, \h1FF4>>, <<\h1FF6, \h1FFC>>, <<\h2071, \h2071>>,
     <<\h207F, \h207F>>, <<\h2090, \h209C>>, <<\h2102, \h2102>>,
     <<\h2107, \h2107>>, <<\h210A, \h2113>>, <<\h2115, \h2115>>,
     <<\h2119, \h211D>>, <<\h2124, \h2124>>, <<\h2126, \h2126>>,
     <<\h2128, \h2128>>, <<\h212A, \h212D>>, <<\h212F, \h2134>>,
     <<\h2139, \h2139>>, <<\h213C, \h213F>>, <<\h2145, \h2149>>,
     <<\h214E, \h214E>>, <<\h2160, \h217F>>, <<\h2183, \h2184>>,
     <<\h24B6, \h24E9>>, <<\h2C00, \h2CE4>>, <<\h2CEB, \h2CEE>>,
     <<\h2CF2, \h2CF3>>, <<\h2D00, \h2D25>>, <<\h2D27, \h2D27>>,
     <<\h2D2D, \h2D2D>>, <<\hA640, \hA66D>>, <<\hA680, \hA69D>>,
     <<\hA722, \hA787>>, <<\hA78B, \hA78E>>, <<\hA790, \hA7CA>>,
     <<\hA7D0, \hA7D1>>, <<\hA7D3, \hA7D3>>, <<\hA7D5, \hA7D9>>,
     <<\hA7F5, \hA7F6>>, <<\hA7F8, \hA7FA>>, <<\hAB30, \hAB5A>>,
     <<\hAB5C, \hAB68>>, <<\hAB70, \hABBF>>, <<\hFB00, \hFB06>>,
     <<\hFB13, \hFB17>>, <<\hFF21, \hFF3A>>, <<\hFF41, \hFF5A>>,
     <<\h10400, \h1044F>>, <<\h104B0, \h104D3>>, <<\h104D8, \h104FB>>,
     <<\h10570, \h1057A>>, <<\h1057C, \h1058A>>, <<\h1058C, \h10592>>,
     <<\h10594, \h10595>>, <<\h10597, \h105A1>>, <<\h105A3, \h105B1>>,
     <<\h105B3, \h105B9>>, <<\h105BB, \h105BC>>, <<\h10780, \h10780>>,
     <<\h10783, \h10785>>, <<\h10787, \h107B0>>, <<\h107B2, \h107BA>>,
     <<\h10C80, \h10CB2>>, <<\h10CC0, \h10CF2>>, <<\h118A0, \h118DF>>,
     <<\h16E40, \h16E7F>>, <<\h1D400, \h1D454>>, <<\h1D456, \h1D49C>>,
     <<\h1D49E, \h1D49F>>, <<\h1D4A2, \h1D4A2>>, <<\h1D4A5, \h1D4A6>>,
     <<\h1D4A9, \h1D4AC>>, <<\h1D4AE, \h1D4B9>>, <<\h1D4BB, \h1D4BB>>,
     <<\h1D4BD, \h1D4C3>>, <<\h1D4C5, \h1D505>>, <<\h1D507, \h1D50A>>,
     <<\h1D50D, \h1D514>>, <<\h1D516, \h1D51C>>, <<\h1D51E, \h1D539>>,
     <<\h1D53B, \h1D53E>>, <<\h1D540, \h1D544>>, <<\h1D546, \h1D546>>,
     <<\h1D54A, \h1D550>>, <<\h1D552, \h1D6A5>>, <<\h1D6A8, \h1D6C0>>,
     <<\h1D6C2, \h1D6DA>>, <<\h1D6DC, \h1D6FA>>, <<\h1D6FC, \h1D714>>,
     <<\h1D716, \h1D734>>, <<\h1D736, \h1D74E>>, <<\h1D750, \h1D76E>>,
     <<\h1D770, \h1D788>>, <<\h1D78A, \h1D7A8>>, <<\h1D7AA, \h1D7C2>>,
     <<\h1D7C4, \h1D7CB>>, <<\h1DF00, \h1DF09>>, <<\h1DF0B, \h1DF1E>>,
     <<\h1E900, \h1E943>>, <<\h1F130, \h1F149>>, <<\h1F150, \h1F169>>,
     <<\h1F170, \h1F189>> }
Cased == CasedNarrow \cup SymbolRanges(CasedRanges)
CaseIgnorableNarrow ==
    {"'", ".", ":", "^", "¨", "­", "¯", "´", "·", "¸" }
CaseIgnorableRanges ==
    {<<\h0060, \h0060>>, <<\h02B0, \h036F>>, <<\h0374, \h0375>>,
     <<\h037A, \h037A>>, <<\h0384, \h0385>>, <<\h0387, \h0387>>,
     <<\h0483, \h0489>>, <<\h0559, \h0559>>, <<\h055F, \h055F>>,
     <<\h0591, \h05BD>>, <<\h05BF, \h05BF>>, <<\h05C1, \h05C2>>,
     <<\h05C4, \h05C5>>, <<\h05C7, \h05C7>>, <<\h05F4, \h05F4>>,
     <<\h0600, \h0605>>, <<\h0610, \h061A>>, <<\h061C, \h061C>>,
     <<\h0640, \h0640>>, <<\h064B, \h065F>>, <<\h0670, \h0670>>,
     <<\h06D6, \h06DD>>, <<\h06DF, \h06E8>>, <<\h06EA, \h06ED>>,
     <<\h070F, \h070F>>, <<\h0711, \h0711>>, <<\h0730, \h074A>>,
     <<\h07A6, \h07B0>>, <<\h07EB, \h07F5>>, <<\h07FA, \h07FA>>,
     <<\h07FD, \h07FD>>, <<\h0816, \h082D>>, <<\h0859, \h085B>>,
     <<\h0888, \h0888>>, <<\h0890, \h0891>>, <<\h0898, \h089F>>,
     <<\h08C9, \h0902>>, <<\h093A, \h093A>>, <<\h093C, \h093C>>,
     <<\h0941, \h0948>>, <<\h094D, \h094D>>, <<\h0951, \h0957>>,
     <<\h0962, \h0963>>, <<\h0971, \h0971>>, <<\h0981, \h0981>>,
     <<\h09BC, \h09BC>>, <<\h09C1, \h09C4>>, <<\h09CD, \h09CD>>,
     <<\h09E2, \h09E3>>, <<\h09FE, \h09FE>>, <<\h0A01, \h0A02>>,
     <<\h0A3C, \h0A3C>>, <<\h0A41, \h0A42>>, <<\h0A47, \h0A48>>,
     <<\h0A4B, \h0A4D>>, <<\h0A51, \h0A51>>, <<\h0A70, \h0A71>>,
     <<\h0A75, \h0A75>>, <<\h0A81, \h0A82>>, <<\h0ABC, \h0ABC>>,
     <<\h0AC1, \h0AC5>>, <<\h0AC7, \h0AC8>>, <<\h0ACD, \h0ACD>>,
     <<\h0AE2, \h0AE3>>, <<\h0AFA, \h0AFF>>, <<\h0B01, \h0B01>>,
     <<\h0B3C, \h0B3C>>, <<\h0B3F, \h0B3F>>, <<\h0B41, \h0B44>>,
     <<\h0B4D, \h0B4D>>, <<\h0B55, \h0B56>>, <<\h0B62, \h0B63>>,
     <<\h0B82, \h0B82>>, <<\h0BC0, \h0BC0>>, <<\h0BCD, \h0BCD>>,
     <<\h0C00, \h0C00>>, <<\h0C04, \h0C04>>, <<\h0C3C, \h0C3C>>,
     <<\h0C3E, \h0C40>>, <<\h0C46, \h0C48>>, <<\h0C4A, \h0C4D>>,
     <<\h0C55, \h0C56>>, <<\h0C62, \h0C63>>, <<\h0C81, \h0C81>>,
     <<\h0CBC, \h0CBC>>, <<\h0CBF, \h0CBF>>, <<\h0CC6, \h0CC6>>,
     <<\h0CCC, \h0CCD>>, <<\h0CE2, \h0CE3>>, <<\h0D00, \h0D01>>,
     <<\h0D3B, \h0D3C>>, <<\h0D41, \h0D44>>, <<\h0D4D, \h0D4D>>,
     <<\h0D62, \h0D63>>, <<\h0D81, \h0D81>>, <<\h0DCA, \h0DCA>>,
     <<\h0DD2, \h0DD4>>, <<\h0DD6, \h0DD6>>, <<\h0E31, \h0E31>>,
     <<\h0E34, \h0E3A>>, <<\h0E46, \h0E4E>>, <<\h0EB1, \h0EB1>>,
     <<\h0EB4, \h0EBC>>, <<\h0EC6, \h0EC6>>, <<\h0EC8, \h0ECD>>,
     <<\h0F18, \h0F19>>, <<\h0F35, \h0F35>>, <<\h0F37, \h0F37>>,
     <<\h0F39, \h0F39>>, <<\h0F71, \h0F7E>>, <<\h0F80, \h0F84>>,
     <<\h0F86, \h0F87>>, <<\h0F8D, \h0F97>>, <<\h0F99, \h0FBC>>,
     <<\h0FC6, \h0FC6>>, <<\h102D, \h1030>>, <<\h1032, \h1037>>,
     <<\h1039, \h103A>>, <<\h103D, \h103E>>, <<\h1058, \h1059>>,
     <<\h105E, \h1060>>, <<\h1071, \h1074>>, <<\h1082, \h1082>>,
     <<\h1085, \h1086>>, <<\h108D, \h108D>>, <<\h109D, \h109D>>,
     <<\h10FC, \h10FC>>, <<\h135D, \h135F>>, <<\h1712, \h1714>>,
     <<\h1732, \h1733>>, <<\h1752, \h1753>>, <<\h1772, \h1773>>,
     <<\h17B4, \h17B5>>, <<\h17B7, \h17BD>>, <<\h17C6, \h17C6>>,
     <<\h17C9, \h17D3>>, <<\h17D7, \h17D7>>, <<\h17DD, \h17DD>>,
     <<\h180B, \h180F>>, <<\h1843, \h1843>>, <<\h1885, \h1886>>,
     <<\h18A9, \h18A9>>, <<\h1920, \h1922>>, <<\h1927, \h1928>>,
     <<\h1932, \h1932>>, <<\h1939, \h193B>>, <<\h1A17, \h1A18>>,
     <<\h1A1B, \h1A1B>>, <<\h1A56, \h1A56>>, <<\h1A58, \h1A5E>>,
     <<\h1A60, \h1A60>>, <<\h1A62, \h1A62>>, <<\h1A65, \h1A6C>>,
     <<\h1A73, \h1A7C>>, <<\h1A7F, \h1A7F>>, <<\h1AA7, \h1AA7>>,
     <<\h1AB0, \h1ACE>>, <<\h1B00, \h1B03>>, <<\h1B34, \h1B34>>,
     <<\h1B36, \h1B3A>>, <<\h1B3C, \h1B3C>>, <<\h1B42, \h1B42>>,
     <<\h1B6B, \h1B73>>, <<\h1B80, \h1B81>>, <<\h1BA2, \h1BA5>>,
     <<\h1BA8, \h1BA9>>, <<\h1BAB, \h1BAD>>, <<\h1BE6, \h1BE6>>,
     <<\h1BE8, \h1BE9>>, <<\h1BED, \h1BED>>, <<\h1BEF, \h1BF1>>,
     <<\h1C2C, \h1C33>>, <<\h1C36, \h1C37>>, <<\h1C78, \h1C7D>>,
     <<\h1CD0, \h1CD2>>, <<\h1CD4, \h1CE0>>, <<\h1CE2, \h1CE8>>,
     <<\h1CED, \h1CED>>, <<\h1CF4, \h1CF4>>, <<\h1CF8, \h1CF9>>,
     <<\h1D2C, \h1D6A>>, <<\h1D78, \h1D78>>, <<\h1D9B, \h1DFF>>,
     <<\h1FBD, \h1FBD>>, <<\h1FBF, \h1FC1>>, <<\h1FCD, \h1FCF>>,
     <<\h1FDD, \h1FDF>>, <<\h1FED, \h1FEF>>, <<\h1FFD, \h1FFE>>,
     <<\h200B, \h200F>>, <<\h2018, \h2019>>, <<\h2024, \h2024>>,
     <<\h2027, \h2027>>, <<\h202A, \h202E>>, <<\h2060, \h2064>>,
     <<\h2066, \h206F>>, <<\h2071, \h2071>>, <<\h207F, \h207F>>,
     <<\h2090, \h209C>>, <<\h20D0, \h20F0>>, <<\h2C7C, \h2C7D>>,
     <<\h2CEF, \h2CF1>>, <<\h2D6F, \h2D6F>>, <<\h2D7F, \h2D7F>>,
     <<\h2DE0, \h2DFF>>, <<\h2E2F, \h2E2F>>, <<\h3005, \h3005>>,
     <<\h302A, \h302D>>, <<\h3031, \h3035>>, <<\h303B, \h303B>>,
     <<\h3099, \h309E>>, <<\h30FC, \h30FE>>, <<\hA015, \hA015>>,
     <<\hA4F8, \hA4FD>>, <<\hA60C, \hA60C>>, <<\hA66F, \hA672>>,
     <<\hA674, \hA67D>>, <<\hA67F, \hA67F>>, <<\hA69C, \hA69F>>,
     <<\hA6F0, \hA6F1>>, <<\hA700, \hA721>>, <<\hA770, \hA770>>,
     <<\hA788, \hA78A>>, <<\hA7F2, \hA7F4>>, <<\hA7F8, \hA7F9>>,
     <<\hA802, \hA802>>, <<\hA806, \hA806>>, <<\hA80B, \hA80B>>,
     <<\hA825, \hA826>>, <<\hA82C, \hA82C>>, <<\hA8C4, \hA8C5>>,
     <<\hA8E0, \hA8F1>>, <<\hA8FF, \hA8FF>>, <<\hA926, \hA92D>>,
     <<\hA947, \hA951>>, <<\hA980, \hA982>>, <<\hA9B3, \hA9B3>>,
     <<\hA9B6, \hA9B9>>, <<\hA9BC, \hA9BD>>, <<\hA9CF, \hA9CF>>,
     <<\hA9E5, \hA9E6>>, <<\hAA29, \hAA2E>>, <<\hAA31, \hAA32>>,
     <<\hAA35, \hAA36>>, <<\hAA43, \hAA43>>, <<\hAA4C, \hAA4C>>,
     <<\hAA70, \hAA70>>, <<\hAA7C, \hAA7C>>, <<\hAAB0, \hAAB0>>,
     <<\hAAB2, \hAAB4>>, <<\hAAB7, \hAAB8>>, <<\hAABE, \hAABF>>,
     <<\hAAC1, \hAAC1>>, <<\hAADD, \hAADD>>, <<\hAAEC, \hAAED>>,
     <<\hAAF3, \hAAF4>>, <<\hAAF6, \hAAF6>>, <<\hAB5B, \hAB5F>>,
     <<\hAB69, \hAB6B>>, <<\hABE5, \hABE5>>, <<\hABE8, \hABE8>>,
     <<\hABED, \hABED>>, <<\hFB1E, \hFB1E>>, <<\hFBB2, \hFBC2>>,
     <<\hFE00, \hFE0F>>, <<\hFE13, \hFE13>>, <<\hFE20, \hFE2F>>,
     <<\hFE52, \hFE52>>, <<\hFE55, \hFE55>>, <<\hFEFF, \hFEFF>>,
     <<\hFF07, \hFF07>>, <<\hFF0E, \hFF0E>>, <<\hFF1A, \hFF1A>>,
     <<\hFF3E, \hFF3E>>, <<\hFF40, \hFF40>>, <<\hFF70, \hFF70>>,
     <<\hFF9E, \hFF9F>>, <<\hFFE3, \hFFE3>>, <<\hFFF9, \hFFFB>>,
     <<\h101FD, \h101FD>>, <<\h102E0, \h102E0>>, <<\h10376, \h1037A>>,
     <<\h10780, \h10785>>, <<\h10787, \h107B0>>, <<\h107B2, \h107BA>>,
     <<\h10A01, \h10A03>>, <<\h10A05, \h10A06>>, <<\h10A0C, \h10A0F>>,
     <<\h10A38, \h10A3A>>, <<\h10A3F, \h10A3F>>, <<\h10AE5, \h10AE6>>,
     <<\h10D24, \h10D27>>, <<\h10EAB, \h10EAC>>, <<\h10F46, \h10F50>>,
     <<\h10F82, \h10F85>>, <<\h11001, \h11001>>, <<\h11038, \h11046>>,
     <<\h11070, \h11070>>, <<\h11073, \h11074>>, <<\h1107F, \h11081>>,
     <<\h110B3, \h110B6>>, <<\h110B9, \h110BA>>, <<\h110BD, \h110BD>>,
     <<\h110C2, \h110C2>>, <<\h110CD, \h110CD>>, <<\h11100, \h11102>>,
     <<\h11127, \h1112B>>, <<\h1112D, \h11134>>, <<\h11173, \h11173>>,
     <<\h11180, \h11181>>, <<\h111B6, \h111BE>>, <<\h111C9, \h111CC>>,
     <<\h111CF, \h111CF>>, <<\h1122F, \h11231>>, <<\h11234, \h11234>>,
     <<\h11236, \h11237>>, <<\h1123E, \h1123E>>, <<\h112DF, \h112DF>>,
     <<\h112E3, \h112EA>>, <<\h11300, \h11301>>, <<\h1133B, \h1133C>>,
     <<\h11340, \h11340>>, <<\h11366, \h1136C>>, <<\h11370, \h11374>>,
     <<\h11438, \h1143F>>, <<\h11442, \h11444>>, <<\h11446, \h11446>>,
     <<\h1145E, \h1145E>>, <<\h114B3, \h114B8>>, <<\h114BA, \h114BA>>,
     <<\h114BF, \h114C0>>, <<\h114C2, \h114C3>>, <<\h115B2, \h115B5>>,
     <<\h115BC, \h115BD>>, <<\h115BF, \h115C0>>, <<\h115DC, \h115DD>>,
     <<\h11633, \h1163A>>, <<\h1163D, \h1163D>>, <<\h1163F, \h11640>>,
     <<\h116AB, \h116AB>>, <<\h116AD, \h116AD>>, <<\h116B0, \h116B5>>,
     <<\h116B7, \h116B7>>, <<\h1171D, \h1171F>>, <<\h11722, \h11725>>,
     <<\h11727, \h1172B>>, <<\h1182F, \h11837>>, <<\h11839, \h1183A>>,
     <<\h1193B, \h1193C>>, <<\h1193E, \h1193E>>, <<\h11943, \h11943>>,
     <<\h119D4, \h119D7>>, <<\h119DA, \h119DB>>, <<\h119E0, \h119E0>>,
     <<\h11A01, \h11A0A>>, <<\h11A33, \h11A38>>, <<\h11A3B, \h11A3E>>,
     <<\h11A47, \h11A47>>, <<\h11A51, \h11A56>>, <<\h11A59, \h11A5B>>,
     <<\h11A8A, \h11A96>>, <<\h11A98, \h11A99>>, <<\h11C30, \h11C36>>,
     <<\h11C38, \h11C3D>>, <<\h11C3F, \h11C3F>>, <<\h11C92, \h11CA7>>,
     <<\h11CAA, \h11CB0>>, <<\h11CB2, \h11CB3>>, <<\h11CB5, \h11CB6>>,
     <<\h11D31, \h11D36>>, <<\h11D3A, \h11D3A>>, <<\h11D3C, \h11D3D>>,
     <<\h11D3F, \h11D45>>, <<\h11D47, \h11D47>>, <<\h11D90, \h11D91>>,
     <<\h11D95, \h11D95>>, <<\h11D97, \h11D97>>, <<\h11EF3, \h11EF4>>,
     <<\h13430, \h13438>>, <<\h16AF0, \h16AF4>>, <<\h16B30, \h16B36>>,
     <<\h16B40, \h16B43>>, <<\h16F4F, \h16F4F>>, <<\h16F8F, \h16F9F>>,
     <<\h16FE0, \h16FE1>>, <<\h16FE3, \h16FE4>>, <<\h1AFF0, \h1AFF3>>,
     <<\h1AFF5, \h1AFFB>>, <<\h1AFFD, \h1AFFE>>, <<\h1BC9D, \h1BC9E>>,
     <<\h1BCA0, \h1BCA3>>, <<\h1CF00, \h1CF2D>>, <<\h1CF30, \h1CF46>>,
     <<\h1D167, \h1D169>>, <<\h1D173, \h1D182>>, <<\h1D185, \h1D18B>>,
     <<\h1D1AA, \h1D1AD>>, <<\h1D242, \h1D244>>, <<\h1DA00, \h1DA36>>,
     <<\h1DA3B, \h1DA6C>>, <<\h1DA75, \h1DA75>>, <<\h1DA84, \h1DA84>>,
     <<\h1DA9B, \h1DA9F>>, <<\h1DAA1, \h1DAAF>>, <<\h1E000, \h1E006>>,
     <<\h1E008, \h1E018>>, <<\h1E01B, \h1E021>>, <<\h1E023, \h1E024>>,
     <<\h1E026, \h1E02A>>, <<\h1E130, \h1E13D>>, <<\h1E2AE, \h1E2AE>>,
     <<\h1E2EC, \h1E2EF>>, <<\h1E8D0, \h1E8D6>>, <<\h1E944, \h1E94B>>,
     <<\h1F3FB, \h1F3FF>>, <<\hE0001, \hE0001>>, <<\hE0020, \hE007F>>,
     <<\hE0100, \hE01EF>> }
CaseIgnorable == CaseIgnorableNarrow \cup SymbolRanges(CaseIgnorableRanges)

\* whether the capital sigma s[i] ends a word: the nearest character before it
\* that is not case-ignorable is cased, and the nearest one after it, if any,
\* is not
FinalSigma(s, i) ==
    /\ \E j \in 1..(i - 1) :
          /\ s[j] \in Cased \ CaseIgnorable
          /\ \A k \in (j + 1)..(i - 1) : s[k] \in CaseIgnorable
    /\ ~\E j \in (i + 1)..Len(s) :
          /\ s[j] \in Cased \ CaseIgnorable
          /\ \A k \in (i + 1)..(j - 1) : s[k] \in CaseIgnorable

\* str.lower(): every character by its lowercase, the capital sigma U+03A3 by
\* the final sigma U+03C2 at the end of a word and by U+03C3 elsewhere
RECURSIVE LowerFrom(_, _)
LowerFrom(s, i) ==
    IF i > Len(s) THEN <<>>
    ELSE (IF s[i] = "U+03A3"
          THEN <<IF FinalSigma(s, i) THEN "U+03C2" ELSE "U+03C3">>
          ELSE LowerChar(s[i])) \o LowerFrom(s, i + 1)
Lower(s) == LowerFrom(s, 1)

Contains(text, needle) ==
    \E i \in 0..(Len(text) - Len(needle)) :
        \A j \in 1..Len(needle) : text[i + j] = needle[j]

\* the characters str.isspace() holds for above U+00FF; a TLA+ string cannot
\* hold them, so each is the one symbol that names its code point
WideWhitespace ==
    {"U+1680", "U+2000", "U+2001", "U+2002", "U+2003", "U+2004", "U+2005",
     "U+2006", "U+2007", "U+2008", "U+2009", "U+200A", "U+2028", "U+2029",
     "U+202F", "U+205F", "U+3000"}
\* the characters str.isspace() holds for: strip() removes them
Whitespace ==
    {" ", "\t", "\n", "\r", "\f", "", "", "", "", "", "", " "}
        \cup WideWhitespace
Strip(s) ==
    IF \A i \in 1..Len(s) : s[i] \in Whitespace
    THEN <<>>
    ELSE LET first == CHOOSE i \in 1..Len(s) :
                          /\ s[i] \notin Whitespace
                          /\ \A j \in 1..(i - 1) : s[j] \in Whitespace
             last == CHOOSE i \in 1..Len(s) :
                          /\ s[i] \notin Whitespace
                          /\ \A j \in (i + 1)..Len(s) : s[j] \in Whitespace
         IN SubSeq(s, first, last)

(***************************************************************************)
(* print() in review_contract writes str(value) to sys.stdout, a UTF-8     *)
(* text stream.  A lone surrogate (U+D800..U+DFFF, one symbol each as      *)
(* above) has no UTF-8 encoding, so the write raises UnicodeEncodeError;   *)
(* where the stream was opened with the surrogateescape handler (the       *)
(* default under the C and POSIX locales) U+DC80..U+DCFF are written as    *)
(* one byte each.  A value that is no str is written by repr(), which      *)
(* escapes every surrogate.                                                *)
(***************************************************************************)
HexDigits == {"0", "1", "2", "3", "4", "5", "6", "7",
              "8", "9", "A", "B", "C", "D", "E", "F"}
HighHexDigits == {"8", "9", "A", "B", "C", "D", "E", "F"}
Surrogates ==
    {"U+D" \o a \o b \o c : a \in HighHexDigits, b \in HexDigits, c \in HexDigits}
EscapableSurrogates ==
    {"U+DC" \o b \o c : b \in HighHexDigits, c \in HexDigits}

\* whether print(f"...{value}") raises UnicodeEncodeError: the outcomes a UTF-8
\* stdout can give, over both of its error handlers
StdoutRaises(value) ==
    IF ~IsStr(value) THEN {FALSE}
    ELSE IF \E i \in 1..Len(value.v) : value.v[i] \in Surrogates \ EscapableSurrogates
         THEN {TRUE}
    ELSE IF \E i \in 1..Len(value.v) : value.v[i] \in EscapableSurrogates
         THEN {TRUE, FALSE}
    ELSE {FALSE}

(***************************************************************************)
(* Exceptions.  An exception is known by its class; str(e) is that symbol. *)
(* The inference client raises on a network failure, a non-2xx answer or a *)
(* body that json.loads cannot parse.  The message of an exception is text *)
(* the service supplied: the third error is one whose str(e) is a lone     *)
(* surrogate.                                                              *)
(***************************************************************************)
ClientErrors == {"APIError", "JSONDecodeError", "U+D800"}
Raised(e) == [t |-> "raise", v |-> e]
IsRaised(x) == x.t = "raise"

\* what one call of the inference client does: it raises, or returns an object
Outcomes(responses) ==
    {[raised |-> TRUE, e |-> e] : e \in ClientErrors}
        \cup {[raised |-> FALSE, body |-> b] : b \in responses}

(***************************************************************************)
(* ClauseDetectorAgent.detect_clauses: the prompt is built from the text   *)
(* alone, the client is always called, and any exception becomes the       *)
(* agent's error object.                                                   *)
(***************************************************************************)
DetectClausesError(e) ==
    JDict([error |-> JStr(<<"Failed to detect clauses: ", e>>),
           detected_clauses |-> EmptyList,
           clause_summary |-> JDict([
               total_clauses_found |-> JInt(0),
               high_importance_count |-> JInt(0),
               coverage_assessment |-> JStr(<<"Analysis failed due to error">>)])])

detect_clauses(text, o) ==
    IF o.raised THEN DetectClausesError(o.e) ELSE o.body

(***************************************************************************)
(* The clause context of a prompt: "\n".join(f"- {clause.get(...)}:        *)
(* {clause.get('clause_text', '')[:n]}..." for clause in clauses[:limit]). *)
(* It raises when the clauses cannot be sliced, when one of the first      *)
(* `limit` items has no .get, or when its clause_text cannot be sliced.    *)
(***************************************************************************)
RiskClauseLimit == 10
RedlineClauseLimit == 8

Min(a, b) == IF a <= b THEN a ELSE b

\* the i-th item a for-loop over x yields: an element of a list, a character of a str
Item(x, i) == IF IsList(x) THEN x.v[i] ELSE JStr(<<x.v[i]>>)

\* building the line of the i-th clause raises
ClauseLineRaises(clauses, i) ==
    \/ ~IsDict(Item(clauses, i))
    \/ Get(Item(clauses, i), "clause_text", EmptyStr).t \notin {"str", "list"}

\* the class of the exception the clause context raises, "none" when it is
\* built: TypeError when the clauses cannot be sliced, AttributeError at the
\* first item without .get, TypeError at the first clause_text that cannot be
\* sliced
ClauseContextError(clauses, limit) ==
    IF ~(IsList(clauses) \/ IsStr(clauses)) THEN "TypeError"
    ELSE LET n == Min(limit, Len(clauses.v))
         IN IF \A i \in 1..n : ~ClauseLineRaises(clauses, i) THEN "none"
            ELSE LET first == CHOOSE i \in 1..n :
                                  /\ ClauseLineRaises(clauses, i)
                                  /\ \A j \in 1..(i - 1) : ~ClauseLineRaises(clauses, j)
                 IN IF IsDict(Item(clauses, first)) THEN "TypeError"
                    ELSE "AttributeError"

ClauseContextRaises(clauses, limit) == ClauseContextError(clauses, limit) # "none"

(***************************************************************************)
(* ClauseDetectorAgent.get_clause_recommendations: no external call and no *)
(* try block, an exception reaches the caller.                             *)
(***************************************************************************)
EssentialClauses ==
    << <<"I","n","d","e","m","n","i","t","y">>,
       <<"T","e","r","m","i","n","a","t","i","o","n">>,
       <<"L","i","a","b","i","l","i","t","y"," ","L","i","m","i","t","a","t","i","o","n">>,
       <<"G","o","v","e","r","n","i","n","g"," ","L","a","w">>,
       <<"D","i","s","p","u","t","e"," ","R","e","s","o","l","u","t","i","o","n">> >>

\* a - b raises TypeError unless both are numbers
Minus(a, b) == IF IsInt(a) /\ IsInt(b) THEN JInt(IntOf(a) - IntOf(b)) ELSE Raised("TypeError")

\* the clause types a loop over the clauses collects with .get("clause_type", "")
ClauseTypesFound(detected_clauses) ==
    IF IsList(detected_clauses) \/ IsStr(detected_clauses)
    THEN [i \in 1..Len(detected_clauses.v) |->
             IF IsDict(Item(detected_clauses, i))
             THEN Get(Item(detected_clauses, i), "clause_type", EmptyStr)
             ELSE JNull]
    ELSE <<>>

\* any(essential.lower() in clause_type.lower() ...): the types are tried in
\* order up to the first match
FoundAt(essential, clause_types, i) ==
    /\ IsStr(clause_types[i])
    /\ Contains(Lower(clause_types[i].v), Lower(essential))
AnyLowerRaises(essential, clause_types) ==
    \E i \in 1..Len(clause_types) :
        /\ ~IsStr(clause_types[i])
        /\ \A j \in 1..(i - 1) : ~FoundAt(essential, clause_types, j)
IsMissing(essential, clause_types) ==
    \A i \in 1..Len(clause_types) : ~FoundAt(essential, clause_types, i)

\* len(essential_clauses - len(missing_clauses)) / len(essential_clauses) * 100
CompletenessScore(essential_clauses, missing_clauses) ==
    LET difference == Minus(JList(essential_clauses), JInt(Len(missing_clauses)))
    IN IF IsRaised(difference) THEN difference
       ELSE IF LenRaises(difference) THEN Raised("TypeError")
       ELSE JInt((PyLen(difference) * 100) \div Len(essential_clauses))

get_clause_recommendations(detected_clauses) ==
    IF LenRaises(detected_clauses)
    THEN Raised("TypeError")
    ELSE IF \/ IsDict(detected_clauses) /\ DOMAIN detected_clauses.v # {}
            \/ \E i \in 1..Len(ClauseTypesFound(detected_clauses)) :
                  ~IsDict(Item(detected_clauses, i))
    THEN Raised("AttributeError")
    ELSE LET clause_types_found == ClauseTypesFound(detected_clauses)
             essential_clauses == EssentialClauses
             Missing(essential) == IsMissing(essential, clause_types_found)
             missing_clauses == SelectSeq(essential_clauses, Missing)
             score == CompletenessScore(essential_clauses, missing_clauses)
         IN IF \E k \in 1..Len(essential_clauses) :
                   AnyLowerRaises(essential_clauses[k], clause_types_found)
            THEN Raised("AttributeError")
            ELSE IF IsRaised(score) THEN score
            ELSE JDict([
                missing_essential_clauses |->
                    JList([k \in 1..Len(missing_clauses) |->
                              JStr(missing_clauses[k])]),
                completeness_score |-> score,
                recommendations |->
                    JList([k \in 1..Len(missing_clauses) |->
                              JStr(<<"Consider adding a ">> \o missing_clauses[k]
                                     \o <<" clause for better protection">>)])])

(***************************************************************************)
(* RiskAnalysisAgent.analyze_risks and assess_language_clarity.            *)
(***************************************************************************)
AnalyzeRisksError(e) ==
    JDict([error |-> JStr(<<"Failed to analyze risks: ", e>>),
           risk_analysis |-> EmptyList,
           overall_risk_assessment |-> JDict([
               total_risks_identified |-> JInt(0),
               high_severity_count |-> JInt(0),
               medium_severity_count |-> JInt(0),
               low_severity_count |-> JInt(0),
               overall_risk_score |-> JInt(0),
               key_concerns |-> JList(<<JStr(<<"Risk analysis failed due to error">>)>>),
               recommended_action |->
                   JStr(<<"Manual review required - automated analysis unavailable">>)])])

\* whether analyze_risks reaches its client call
AnalyzeRisksCalls(clauses) == ~ClauseContextRaises(clauses, RiskClauseLimit)

analyze_risks(text, clauses, o) ==
    IF ~AnalyzeRisksCalls(clauses)
    THEN AnalyzeRisksError(ClauseContextError(clauses, RiskClauseLimit))
    ELSE IF o.raised THEN AnalyzeRisksError(o.e)
    ELSE o.body

ClarityError(e) ==
    JDict([error |-> JStr(<<"Failed to assess language clarity: ", e>>),
           clarity_issues |-> EmptyList,
           clarity_score |-> JInt(0),
           summary |-> JStr(<<"Language clarity analysis failed">>)])

assess_language_clarity(text, o) ==
    IF o.raised THEN ClarityError(o.e) ELSE o.body

(***************************************************************************)
(* RedlineSuggesterAgent.generate_redlines.  Before the call it filters    *)
(* the high-severity risks (risk.get("severity_level", "").lower() ==      *)
(* "high") and builds the clause context.                                  *)
(***************************************************************************)
GenerateRedlinesError(e) ==
    JDict([error |-> JStr(<<"Failed to generate redlines: ", e>>),
           redline_suggestions |-> EmptyList,
           new_clauses_needed |-> EmptyList,
           negotiation_strategy |-> JDict([
               key_positions |->
                   JList(<<JStr(<<"Manual review required due to analysis error">>)>>),
               fallback_options |-> EmptyList,
               deal_breakers |-> EmptyList]),
           summary |-> JDict([
               total_suggestions |-> JInt(0),
               critical_changes |-> JInt(0),
               estimated_risk_reduction |->
                   JStr(<<"Unable to assess - analysis failed">>)])])

\* iterating x and calling .get(key, "").lower() on every item raises
EachLowerRaises(x, key) ==
    IF IsList(x) \/ IsStr(x)
    THEN \E i \in 1..Len(x.v) :
            \/ ~IsDict(Item(x, i))
            \/ ~IsStr(Get(Item(x, i), key, EmptyStr))
    ELSE IF IsDict(x) THEN DOMAIN x.v # {}
    ELSE TRUE

\* the class of the exception the high-risk filter raises, "none" when it
\* passes: AttributeError when the risk results or an item have no .get or a
\* severity_level has no .lower, TypeError when the risks cannot be iterated
HighRisksError(risk_analysis) ==
    IF ~IsDict(risk_analysis) THEN "AttributeError"
    ELSE IF LenRaises(Get(risk_analysis, "risk_analysis", EmptyList)) THEN "TypeError"
    ELSE IF EachLowerRaises(Get(risk_analysis, "risk_analysis", EmptyList),
                            "severity_level")
    THEN "AttributeError"
    ELSE "none"

HighRisksRaise(risk_analysis) == HighRisksError(risk_analysis) # "none"

\* whether generate_redlines reaches its client call
GenerateRedlinesCalls(risk_analysis, clauses) ==
    /\ ~HighRisksRaise(risk_analysis)
    /\ ~ClauseContextRaises(clauses, RedlineClauseLimit)

generate_redlines(text, risk_analysis, clauses, o) ==
    IF HighRisksRaise(risk_analysis)
    THEN GenerateRedlinesError(HighRisksError(risk_analysis))
    ELSE IF ~GenerateRedlinesCalls(risk_analysis, clauses)
    THEN GenerateRedlinesError(ClauseContextError(clauses, RedlineClauseLimit))
    ELSE IF o.raised THEN GenerateRedlinesError(o.e)
    ELSE o.body

(***************************************************************************)
(* RedlineSuggesterAgent.prioritize_changes: no external call.             *)
(***************************************************************************)
\* the comparison without .lower()
PriorityIs_CaseSensitive(r, level) == Get(r, "priority", EmptyStr).v = level

PriorityIs(r, level) == Lower(Get(r, "priority", EmptyStr).v) = level

WithPriority(suggestions, level) ==
    LET Test(r) == PriorityIs(r, level)
    IN SelectSeq(suggestions.v, Test)

PrioritizeError(e) ==
    JDict([error |-> JStr(<<"Failed to prioritize changes: ", e>>),
           implementation_phases |-> EmptyDict,
           negotiation_roadmap |-> EmptyDict])

\* total_items counted over the buckets instead of the input
Roadmap_BucketTotal(redline_suggestions, critical_changes, high_changes, medium_changes) ==
    JDict([must_have_count |-> JInt(Len(critical_changes)),
           high_priority_count |-> JInt(Len(high_changes)),
           total_items |-> JInt(Len(critical_changes) + Len(high_changes)
                                    + Len(medium_changes))])

Roadmap(redline_suggestions, critical_changes, high_changes, medium_changes) ==
    JDict([must_have_count |-> JInt(Len(critical_changes)),
           high_priority_count |-> JInt(Len(high_changes)),
           total_items |-> JInt(PyLen(redline_suggestions))])

prioritize_changes(redline_suggestions) ==
    IF EachLowerRaises(redline_suggestions, "priority")
    THEN PrioritizeError(IF LenRaises(redline_suggestions)
                         THEN "TypeError" ELSE "AttributeError")
    ELSE LET suggestions == IF IsList(redline_suggestions)
                            THEN redline_suggestions ELSE EmptyList
             critical_changes ==
                 WithPriority(suggestions, <<"c","r","i","t","i","c","a","l">>)
             high_changes == WithPriority(suggestions, <<"h","i","g","h">>)
             medium_changes ==
                 WithPriority(suggestions, <<"m","e","d","i","u","m">>)
         IN JDict([
              implementation_phases |-> JDict([
                 phase_1_critical |-> JDict([
                     changes |-> JList(critical_changes),
                     timeline |-> JStr(<<"Address before any signing">>),
                     negotiation_approach |-> JStr(<<"Non-negotiable positions">>)]),
                 phase_2_high |-> JDict([
                     changes |-> JList(high_changes),
                     timeline |-> JStr(<<"Primary negotiation focus">>),
                     negotiation_approach |->
                         JStr(<<"Strong preference, willing to trade">>)]),
                 phase_3_medium |-> JDict([
                     changes |-> JList(medium_changes),
                     timeline |-> JStr(<<"Secondary negotiation items">>),
                     negotiation_approach |-> JStr(<<"Nice to have improvements">>)])]),
              negotiation_roadmap |->
                 Roadmap(redline_suggestions, critical_changes, high_changes,
                         medium_changes)])

(***************************************************************************)
(* The derivations of ContractReviewCrew.  A comparison of a value that is *)
(* no number raises TypeError; `and`, `or` and elif evaluate left to right *)
(* and stop as soon as the result is known.                                *)
(***************************************************************************)
Comprehensive == <<"c","o","m","p","r","e","h","e","n","s","i","v","e">>
Adequate == <<"a","d","e","q","u","a","t","e">>

DetermineRiskLevelRaises(risk_summary) ==
    LET high_risks == Get(risk_summary, "high_severity_count", JInt(0))
        total_risks == Get(risk_summary, "total_risks_identified", JInt(0))
    IN \/ ~IsDict(risk_summary)
       \/ CmpRaises(high_risks)
       \/ (IntOf(high_risks) < 1 /\ CmpRaises(total_risks))

\* the rule with `> 3` for HIGH
RiskLevel_StrictHigh(risk_summary) ==
    LET high_risks == Get(risk_summary, "high_severity_count", JInt(0))
        total_risks == Get(risk_summary, "total_risks_identified", JInt(0))
    IN IF ~IsDict(risk_summary) THEN Raised("AttributeError")
       ELSE IF DetermineRiskLevelRaises(risk_summary) THEN Raised("TypeError")
       ELSE IF IntOf(high_risks) > 3 THEN JStr(<<"HIGH">>)
       ELSE IF IntOf(high_risks) >= 1 \/ IntOf(total_risks) >= 5 THEN JStr(<<"MEDIUM">>)
       ELSE IF IntOf(total_risks) >= 1 THEN JStr(<<"LOW">>)
       ELSE JStr(<<"MINIMAL">>)

\* the rule with `== 3` for HIGH
RiskLevel_ExactHigh(risk_summary) ==
    LET high_risks == Get(risk_summary, "high_severity_count", JInt(0))
        total_risks == Get(risk_summary, "total_risks_identified", JInt(0))
    IN IF ~IsDict(risk_summary) THEN Raised("AttributeError")
       ELSE IF DetermineRiskLevelRaises(risk_summary) THEN Raised("TypeError")
       ELSE IF IntOf(high_risks) = 3 THEN JStr(<<"HIGH">>)
       ELSE IF IntOf(high_risks) >= 1 \/ IntOf(total_risks) >= 5 THEN JStr(<<"MEDIUM">>)
       ELSE IF IntOf(total_risks) >= 1 THEN JStr(<<"LOW">>)
       ELSE JStr(<<"MINIMAL">>)

_determine_overall_risk_level(risk_summary) ==
    LET high_risks == Get(risk_summary, "high_severity_count", JInt(0))
        total_risks == Get(risk_summary, "total_risks_identified", JInt(0))
    IN IF ~IsDict(risk_summary) THEN Raised("AttributeError")
       ELSE IF DetermineRiskLevelRaises(risk_summary) THEN Raised("TypeError")
       ELSE IF IntOf(high_risks) >= 3 THEN JStr(<<"HIGH">>)
       ELSE IF IntOf(high_risks) >= 1 \/ IntOf(total_risks) >= 5 THEN JStr(<<"MEDIUM">>)
       ELSE IF IntOf(total_risks) >= 1 THEN JStr(<<"LOW">>)
       ELSE JStr(<<"MINIMAL">>)

AssessQualityRaises(clause_summary, risk_summary) ==
    LET text == Get(clause_summary, "coverage_assessment", EmptyStr)
        risk_score == Get(risk_summary, "overall_risk_score", JInt(0))
    IN \/ ~IsDict(clause_summary)
       \/ ~IsStr(text)
       \/ ~IsDict(risk_summary)
       \/ /\ \/ Contains(Lower(text.v), Comprehensive)
             \/ Contains(Lower(text.v), Adequate)
          /\ CmpRaises(risk_score)

\* the rule with equality in place of containment
Quality_Equality(clause_summary, risk_summary) ==
    LET text == Get(clause_summary, "coverage_assessment", EmptyStr)
        risk_score == Get(risk_summary, "overall_risk_score", JInt(0))
    IN IF ~IsDict(clause_summary) \/ ~IsStr(text) \/ ~IsDict(risk_summary)
       THEN Raised("AttributeError")
       ELSE IF AssessQualityRaises(clause_summary, risk_summary)
       THEN Raised("TypeError")
       ELSE LET coverage == Lower(text.v)
            IN IF coverage = Comprehensive /\ IntOf(risk_score) < 3
               THEN JStr(<<"GOOD">>)
               ELSE IF coverage = Adequate /\ IntOf(risk_score) < 5
               THEN JStr(<<"FAIR">>)
               ELSE JStr(<<"NEEDS_IMPROVEMENT">>)

\* the FAIR branch open to a text that contains "comprehensive" as well
Quality_ComprehensiveFair(clause_summary, risk_summary) ==
    LET text == Get(clause_summary, "coverage_assessment", EmptyStr)
        risk_score == Get(risk_summary, "overall_risk_score", JInt(0))
    IN IF ~IsDict(clause_summary) \/ ~IsStr(text) \/ ~IsDict(risk_summary)
       THEN Raised("AttributeError")
       ELSE IF AssessQualityRaises(clause_summary, risk_summary)
       THEN Raised("TypeError")
       ELSE LET coverage == Lower(text.v)
            IN IF Contains(coverage, Comprehensive) /\ IntOf(risk_score) < 3
               THEN JStr(<<"GOOD">>)
               ELSE IF /\ Contains(coverage, Adequate) \/ Contains(coverage, Comprehensive)
                       /\ IntOf(risk_score) < 5
               THEN JStr(<<"FAIR">>)
               ELSE JStr(<<"NEEDS_IMPROVEMENT">>)

_assess_contract_quality(clause_summary, risk_summary) ==
    LET text == Get(clause_summary, "coverage_assessment", EmptyStr)
        risk_score == Get(risk_summary, "overall_risk_score", JInt(0))
    IN IF ~IsDict(clause_summary) \/ ~IsStr(text) \/ ~IsDict(risk_summary)
       THEN Raised("AttributeError")
       ELSE IF AssessQualityRaises(clause_summary, risk_summary)
       THEN Raised("TypeError")
       ELSE LET coverage == Lower(text.v)
            IN IF Contains(coverage, Comprehensive) /\ IntOf(risk_score) < 3
               THEN JStr(<<"GOOD">>)
               ELSE IF Contains(coverage, Adequate) /\ IntOf(risk_score) < 5
               THEN JStr(<<"FAIR">>)
               ELSE JStr(<<"NEEDS_IMPROVEMENT">>)

\* f"{n}" for a number n >= 0: its decimal digits
Digits == <<"0","1","2","3","4","5","6","7","8","9">>
RECURSIVE Decimal(_)
Decimal(n) ==
    IF n < 10 THEN <<Digits[n + 1]>>
    ELSE Decimal(n \div 10) \o <<Digits[(n % 10) + 1]>>

\* no except branch: the exception takes the place of the summary
ExecutiveSummaryError_Raises(e) == Raised(e)

ExecutiveSummaryError(e) ==
    JDict([error |-> JStr(<<"Failed to generate executive summary: ", e>>),
           contract_overview |-> EmptyDict,
           overall_assessment |-> EmptyDict])

_generate_executive_summary(clause_results, risk_results, redline_results) ==
    LET clause_summary == Get(clause_results, "clause_summary", EmptyDict)
        risk_summary == Get(risk_results, "overall_risk_assessment", EmptyDict)
        redline_summary == Get(redline_results, "summary", EmptyDict)
    IN IF \/ ~IsDict(clause_results) \/ ~IsDict(risk_results)
          \/ ~IsDict(redline_results)
          \/ ~IsDict(clause_summary) \/ ~IsDict(risk_summary)
          \/ ~IsDict(redline_summary)
       THEN ExecutiveSummaryError("AttributeError")
       ELSE IF IsRaised(_determine_overall_risk_level(risk_summary))
       THEN ExecutiveSummaryError(_determine_overall_risk_level(risk_summary).v)
       ELSE IF IsRaised(_assess_contract_quality(clause_summary, risk_summary))
       THEN ExecutiveSummaryError(
                _assess_contract_quality(clause_summary, risk_summary).v)
       ELSE JDict([
            contract_overview |-> JDict([
                clauses_analyzed |->
                    Get(clause_summary, "total_clauses_found", JInt(0)),
                high_importance_clauses |->
                    Get(clause_summary, "high_importance_count", JInt(0)),
                risks_identified |->
                    Get(risk_summary, "total_risks_identified", JInt(0)),
                high_severity_risks |->
                    Get(risk_summary, "high_severity_count", JInt(0)),
                redline_suggestions |->
                    Get(redline_summary, "total_suggestions", JInt(0)),
                critical_changes_needed |->
                    Get(redline_summary, "critical_changes", JInt(0))]),
            overall_assessment |-> JDict([
                risk_level |-> _determine_overall_risk_level(risk_summary),
                contract_quality |->
                    _assess_contract_quality(clause_summary, risk_summary),
                recommended_action |->
                    Get(risk_summary, "recommended_action",
                        JStr(<<"Review recommended">>)),
                key_concerns |-> Get(risk_summary, "key_concerns", EmptyList)])])

\* f"{x}" for a count x: the decimal digits of a number, True or False for a bool
Format(x) ==
    IF IsBool(x) THEN (IF x.v THEN <<"T","r","u","e">> ELSE <<"F","a","l","s","e">>)
    ELSE Decimal(x.v)

FixedNextSteps ==
    <<JStr(<<"Review all redline suggestions with legal counsel">>),
      JStr(<<"Negotiate key terms with counterparty">>),
      JStr(<<"Obtain final legal approval before signing">>)>>

\* the high-severity instruction placed before the critical-changes one
NextSteps_HighFirst(risk_results, redline_results) ==
    LET risk_summary == Get(risk_results, "overall_risk_assessment", EmptyDict)
        redline_summary == Get(redline_results, "summary", EmptyDict)
    IN IF \/ ~IsDict(risk_results) \/ ~IsDict(risk_summary)
          \/ ~IsDict(redline_results) \/ ~IsDict(redline_summary)
       THEN Raised("AttributeError")
       ELSE LET high_risks == Get(risk_summary, "high_severity_count", JInt(0))
                critical_changes == Get(redline_summary, "critical_changes", JInt(0))
            IN IF CmpRaises(critical_changes) \/ CmpRaises(high_risks)
               THEN Raised("TypeError")
               ELSE JList(
                   (IF IntOf(high_risks) > 0
                    THEN <<JStr(<<"Mitigate ">> \o Format(high_risks) \o
                             <<" high-severity risks identified">>)>>
                    ELSE <<>>)
                   \o (IF IntOf(critical_changes) > 0
                       THEN <<JStr(<<"Address ">> \o Format(critical_changes) \o
                                <<" critical redline suggestions before proceeding">>)>>
                       ELSE <<>>)
                   \o FixedNextSteps)

_generate_next_steps(risk_results, redline_results) ==
    LET risk_summary == Get(risk_results, "overall_risk_assessment", EmptyDict)
        redline_summary == Get(redline_results, "summary", EmptyDict)
    IN IF \/ ~IsDict(risk_results) \/ ~IsDict(risk_summary)
          \/ ~IsDict(redline_results) \/ ~IsDict(redline_summary)
       THEN Raised("AttributeError")
       ELSE LET high_risks == Get(risk_summary, "high_severity_count", JInt(0))
                critical_changes == Get(redline_summary, "critical_changes", JInt(0))
            IN IF CmpRaises(critical_changes) \/ CmpRaises(high_risks)
               THEN Raised("TypeError")
               ELSE JList(
                   (IF IntOf(critical_changes) > 0
                    THEN <<JStr(<<"Address ">> \o Format(critical_changes) \o
                             <<" critical redline suggestions before proceeding">>)>>
                    ELSE <<>>)
                   \o (IF IntOf(high_risks) > 0
                       THEN <<JStr(<<"Mitigate ">> \o Format(high_risks) \o
                                <<" high-severity risks identified">>)>>
                       ELSE <<>>)
                   \o FixedNextSteps)

(***************************************************************************)
(* What the inference client may answer, per stage: the documented shape,  *)
(* objects with fields missing, objects that carry an error key, and       *)
(* objects whose fields have another type than documented.                 *)
(***************************************************************************)
IndemnityClause ==
    JDict([clause_type |-> JStr(<<"I","n","d","e","m","n","i","t","y">>),
           clause_text |-> JStr(<<"h","o","l","d"," ","h","a","r","m","l","e","s","s">>),
           location_context |-> JStr(<<"s","5">>),
           importance_level |-> JStr(<<"H","i","g","h">>)])

ClauseSummary(n, high, coverage) ==
    JDict([total_clauses_found |-> JInt(n),
           high_importance_count |-> JInt(high),
           coverage_assessment |-> JStr(coverage)])

Stage1Ok ==
    JDict([detected_clauses |-> JList(<<IndemnityClause>>),
           clause_summary |-> ClauseSummary(1, 1, <<"C","o","m","p","r","e","h","e","n","s","i","v","e"," ","c","o","v","e","r","a","g","e">>)])

Stage1Responses ==
    { Stage1Ok,
      JDict([detected_clauses |-> EmptyList,
             clause_summary |-> ClauseSummary(0, 0, <<"a","d","e","q","u","a","t","e">>)]),
      EmptyDict,
      JDict([error |-> JStr(<<"n","o","t"," ","a"," ","c","o","n","t","r","a","c","t">>)]),
      JDict([error |-> EmptyStr]),
      JDict([error |-> JStr(<<"U+D800">>)]),
      JDict([error |-> JNull,
             detected_clauses |-> JList(<<IndemnityClause>>),
             clause_summary |-> ClauseSummary(1, 1, <<"a","d","e","q","u","a","t","e">>)]),
      JDict([detected_clauses |-> JNull]),
      JDict([detected_clauses |-> JList(<<JStr(<<"I","n","d","e","m","n","i","t","y">>)>>)]),
      JDict([detected_clauses |-> EmptyList, clause_summary |-> JStr(<<"n","/","a">>)]) }

HighRisk ==
    JDict([risk_type |-> JStr(<<"L","i","a","b","i","l","i","t","y">>),
           risk_description |-> JStr(<<"u","n","c","a","p","p","e","d">>),
           severity_level |-> JStr(<<"H","i","g","h">>),
           affected_clause |-> JStr(<<"I","n","d","e","m","n","i","t","y">>),
           potential_impact |-> JStr(<<"l","o","s","s">>),
           likelihood |-> JStr(<<"L","o","w">>)])

RiskAssessment(total, high, score) ==
    JDict([total_risks_identified |-> JInt(total),
           high_severity_count |-> JInt(high),
           medium_severity_count |-> JInt(0),
           low_severity_count |-> JInt(total - high),
           overall_risk_score |-> JInt(score),
           key_concerns |-> JList(<<JStr(<<"u","n","c","a","p","p","e","d"," ","l","i","a","b","i","l","i","t","y">>)>>),
           recommended_action |-> JStr(<<"N","e","g","o","t","i","a","t","e">>)])

Stage2Ok ==
    JDict([risk_analysis |-> JList(<<HighRisk>>),
           overall_risk_assessment |-> RiskAssessment(5, 3, 4)])

Stage2Responses ==
    { Stage2Ok,
      JDict([risk_analysis |-> EmptyList,
             overall_risk_assessment |-> RiskAssessment(1, 0, 1)]),
      EmptyDict,
      JDict([error |-> JStr(<<"t","o","o"," ","l","o","n","g">>),
             risk_analysis |-> JList(<<HighRisk>>),
             overall_risk_assessment |-> RiskAssessment(5, 3, 4)]),
      JDict([error |-> JStr(<<"U+D800">>)]),
      JDict([risk_analysis |-> JNull]),
      JDict([risk_analysis |-> JList(<<JDict([severity_level |-> JNull])>>)]),
      JDict([risk_analysis |-> EmptyList,
             overall_risk_assessment |-> JDict([
                 total_risks_identified |-> JStr(<<"5">>),
                 high_severity_count |-> JStr(<<"3">>)])]),
      JDict([risk_analysis |-> EmptyList, overall_risk_assessment |-> JNull]),
      JDict([risk_analysis |-> EmptyList,
             overall_risk_assessment |-> JDict([
                 total_risks_identified |-> JInt(1),
                 high_severity_count |-> JInt(0),
                 overall_risk_score |-> JStr(<<"l","o","w">>)])]),
      JDict([risk_analysis |-> EmptyList,
             overall_risk_assessment |-> JDict([
                 total_risks_identified |-> JInt(1),
                 high_severity_count |-> JBool(TRUE)])]) }

Stage3Ok ==
    JDict([clarity_issues |-> EmptyList,
           clarity_score |-> JInt(7),
           summary |-> JStr(<<"c","l","e","a","r">>)])

Stage3Responses ==
    { Stage3Ok, EmptyDict, JDict([error |-> JStr(<<"t","o","o"," ","l","o","n","g">>)]) }

Suggestion(priority) ==
    JDict([change_type |-> JStr(<<"m","o","d","i","f","y">>),
           original_text |-> JStr(<<"s","h","a","l","l">>),
           proposed_text |-> JStr(<<"m","a","y">>),
           rationale |-> JStr(<<"b","a","l","a","n","c","e">>),
           risk_addressed |-> JStr(<<"L","i","a","b","i","l","i","t","y">>),
           priority |-> JStr(priority),
           section_reference |-> JStr(<<"s","5">>)])

RedlineSummary(total, critical) ==
    JDict([total_suggestions |-> JInt(total),
           critical_changes |-> JInt(critical),
           estimated_risk_reduction |-> JStr(<<"s","o","m","e">>)])

Stage4Ok ==
    JDict([redline_suggestions |->
               JList(<<Suggestion(<<"C","r","i","t","i","c","a","l">>), Suggestion(<<"H","i","g","h">>),
                       Suggestion(<<"l","o","w">>), Suggestion(<<"H","I","G","H">>)>>),
           new_clauses_needed |-> EmptyList,
           negotiation_strategy |-> JDict([
               key_positions |-> EmptyList,
               fallback_options |-> EmptyList,
               deal_breakers |-> EmptyList]),
           summary |-> RedlineSummary(4, 1)])

Stage4Responses ==
    { Stage4Ok,
      EmptyDict,
      JDict([error |-> JStr(<<"t","o","o"," ","l","o","n","g">>),
             redline_suggestions |-> JList(<<Suggestion(<<"C","r","i","t","i","c","a","l">>)>>),
             summary |-> RedlineSummary(1, 1)]),
      JDict([error |-> JStr(<<"U+D800">>)]),
      JDict([redline_suggestions |-> JNull]),
      JDict([redline_suggestions |-> EmptyList, summary |-> JNull]),
      JDict([redline_suggestions |-> EmptyList,
             summary |-> JDict([critical_changes |-> JStr(<<"2">>)])]),
      JDict([redline_suggestions |-> JList(<<JDict([priority |-> JNull])>>)]) }

(***************************************************************************)
(* State.  The review in progress (one run of review_contract), the review *)
(* run before it and set aside, and the call of one function on its own    *)
(* (fn, fn_args, fn_ret).                                                  *)
(***************************************************************************)
VARIABLES
    pc,               \* the next step of review_contract
    contract_text,    \* its argument
    client_calls,     \* the stages whose inference client was called, in order
    stages_run,       \* the stage methods that were called and returned, in order
    in_flight,        \* the stages whose inference call is outstanding
    stage_args,       \* the arguments each stage method was called with
    raised,           \* the stages whose inference call raised
    clause_results,   \* the orchestrator's locals, None until assigned
    detected_clauses,
    risk_results,
    clarity_results,
    redline_results,
    prioritization,
    result,           \* the value review_contract returned, None until it returns
    stub,             \* the canned outcome of each stage's call, NoStub if any
    review,           \* which review the variables above belong to
    other,            \* the review run before and set aside, NoReview if none
    fn,               \* the function called on its own
    fn_args,          \* its arguments
    fn_ret,           \* what it returned, NotReturned during the call
    prev_args,        \* the arguments and the result of the call before
    prev_ret

vars == <<pc, contract_text, client_calls, stages_run, in_flight, stage_args,
          raised, clause_results, detected_clauses, risk_results, clarity_results,
          redline_results, prioritization, result, stub, review, other,
          fn, fn_args, fn_ret, prev_args, prev_ret>>

locals == <<clause_results, detected_clauses, risk_results, clarity_results,
            redline_results, prioritization>>
fnvars == <<fn, fn_args, fn_ret, prev_args, prev_ret>>
runvars == <<pc, contract_text, client_calls, stages_run, in_flight, stage_args,
             raised, locals, result>>
envvars == <<stub, review, other>>

NotReturned == [t |-> "pending"]

AllStages ==
    <<"clause_detection", "risk_analysis", "language_clarity",
      "redline_suggestions", "change_prioritization">>
StageNames == {AllStages[i] : i \in 1..Len(AllStages)}
\* no stage method was called yet
NoArgs == [stage \in StageNames |-> <<>>]
NoStub == [canned |-> FALSE]
NoReview == [review |-> "none"]

TextChars == {" ", "\n", "\r", "U+3000", "a"}
Texts == UNION {[1..n -> TextChars] : n \in 0..MaxTextLen}

(***************************************************************************)
(* The pieces of review_contract.                                          *)
(***************************************************************************)
\* the input check without .strip()
NoContractText_NoStrip(text) == Len(text) = 0

\* not contract_text or not contract_text.strip()
NoContractText(text) == Len(text) = 0 \/ Len(Strip(text)) = 0

NoTextResult ==
    JDict([error |-> JStr(<<"No contract text provided for review">>),
           success |-> JBool(FALSE)])

\* "error" in <stage result>
StageFailed(stage_result) == HasKey(stage_result, "error")

\* print(f"... failed: {<stage result>['error']}"), reached when the error key
\* is there
FailureReportRaises(stage_result) ==
    IF StageFailed(stage_result) THEN StdoutRaises(stage_result.v["error"]) ELSE {FALSE}

ClauseFailureResult(results) ==
    JDict([error |-> results.v["error"], success |-> JBool(FALSE)])

RiskDefault ==
    JDict([risk_analysis |-> EmptyList, overall_risk_assessment |-> EmptyDict])

RedlineDefault ==
    JDict([redline_suggestions |-> EmptyList, new_clauses_needed |-> EmptyList])

\* no except branch: the exception reaches the caller
ReviewFailed_Escapes(e) == Raised(e)

\* the except branch of review_contract
ReviewFailed(e) ==
    JDict([error |-> JStr(<<"Contract review failed: ", e>>),
           success |-> JBool(FALSE)])

\* the risk slot rebuilt from the list of risks alone
FinalResults_RiskList(clauses, risks, clarity, redlines, priorities, next_steps) ==
    JDict([success |-> JBool(TRUE),
           contract_analysis |-> JDict([
               clause_detection |-> clauses,
               risk_analysis |->
                   JDict([risk_analysis |-> Get(risks, "risk_analysis", EmptyList)]),
               language_clarity |-> clarity,
               redline_suggestions |-> redlines,
               change_prioritization |-> priorities]),
           executive_summary |-> _generate_executive_summary(clauses, risks, redlines),
           next_steps |-> next_steps])

FinalResults(clauses, risks, clarity, redlines, priorities, next_steps) ==
    JDict([success |-> JBool(TRUE),
           contract_analysis |-> JDict([
               clause_detection |-> clauses,
               risk_analysis |-> risks,
               language_clarity |-> clarity,
               redline_suggestions |-> redlines,
               change_prioritization |-> priorities]),
           executive_summary |-> _generate_executive_summary(clauses, risks, redlines),
           next_steps |-> next_steps])

Return(value) == pc' = "done" /\ result' = value
Goto(step) == pc' = step /\ UNCHANGED result

Init ==
    /\ pc = "validate"
    /\ contract_text \in Texts
    /\ client_calls = <<>>
    /\ stages_run = <<>>
    /\ in_flight = {}
    /\ stage_args = NoArgs
    /\ stub = NoStub
    /\ review = "first"
    /\ other = NoReview
    /\ raised = {}
    /\ clause_results = JNull
    /\ detected_clauses = JNull
    /\ risk_results = JNull
    /\ clarity_results = JNull
    /\ redline_results = JNull
    /\ prioritization = JNull
    /\ result = JNull
    /\ fn = "none"
    /\ fn_args = <<>>
    /\ fn_ret = NotReturned
    /\ prev_args = <<>>
    /\ prev_ret = NotReturned

\* the outcomes the client may give a stage: any, or the canned one
ClientOutcomes(stage, responses) ==
    IF stub = NoStub THEN Outcomes(responses) ELSE {stub[stage]}

\* a stage calls its client where review_contract stands at that stage; the
\* call blocks, so no other call of the review is outstanding
CanIssue(stage) == pc = stage /\ in_flight = {}

Issue(stage) ==
    /\ in_flight' = in_flight \cup {stage}
    /\ client_calls' = Append(client_calls, stage)
    /\ UNCHANGED <<pc, contract_text, stages_run, stage_args, raised, locals,
                   result, fnvars, envvars>>

\* the stage method has returned: `called` tells whether it had called its client
ReturnsFrom(stage, called, args) ==
    /\ in_flight = (IF called THEN {stage} ELSE {})
    /\ in_flight' = {}
    /\ stages_run' = Append(stages_run, stage)
    /\ stage_args' = [stage_args EXCEPT ![stage] = args]

(***************************************************************************)
(* What review_contract passes to each stage method.                       *)
(***************************************************************************)
ClauseDetectionInputs == <<contract_text>>

RiskAnalysisInputs == <<contract_text, detected_clauses>>

ClarityInputs == <<contract_text>>

\* the clarity result handed to the redline stage as well
RedlineInputs_WithClarity == <<contract_text, risk_results, detected_clauses, clarity_results>>

RedlineInputs == <<contract_text, risk_results, detected_clauses>>

\* the whole stage-4 result instead of its list of suggestions
PrioritizationInputs_Whole == <<redline_results>>

PrioritizationInputs == <<Get(redline_results, "redline_suggestions", EmptyList)>>

\* lines 59-63
Validate ==
    /\ pc = "validate"
    /\ IF NoContractText(contract_text)
       THEN Return(NoTextResult)
       ELSE Goto("clause_detection")
    /\ UNCHANGED <<contract_text, client_calls, stages_run, in_flight, stage_args,
                   raised, locals, fnvars, envvars>>

\* clause_detector_agent.py line 79: the call is made for every text
CallClauseDetection ==
    /\ CanIssue("clause_detection")
    /\ Issue("clause_detection")

\* lines 69-78
ClauseDetection ==
    /\ pc = "clause_detection"
    /\ \E o \in ClientOutcomes("clause_detection", Stage1Responses) :
         LET args == ClauseDetectionInputs
             ret == detect_clauses(args[1], o)
             clauses == Get(ret, "detected_clauses", EmptyList)
         IN /\ ReturnsFrom("clause_detection", TRUE, args)
            /\ raised' = IF o.raised THEN raised \cup {"clause_detection"} ELSE raised
            /\ clause_results' = ret
            /\ IF StageFailed(ret)
               THEN /\ \E fails \in FailureReportRaises(ret) :
                         IF fails
                         THEN Return(ReviewFailed("UnicodeEncodeError"))
                         ELSE Return(ClauseFailureResult(ret))
                    /\ UNCHANGED detected_clauses
               ELSE /\ detected_clauses' = clauses
                    /\ IF LenRaises(clauses)
                       THEN Return(ReviewFailed("TypeError"))
                       ELSE Goto("risk_analysis")
    /\ UNCHANGED <<contract_text, client_calls, risk_results, clarity_results,
                   redline_results, prioritization, fnvars, envvars>>

\* risk_analysis_agent.py line 95: the call is made once the prompt is built
CallRiskAnalysis ==
    /\ CanIssue("risk_analysis")
    /\ AnalyzeRisksCalls(RiskAnalysisInputs[2])
    /\ Issue("risk_analysis")

\* lines 80-90
RiskAnalysis ==
    /\ pc = "risk_analysis"
    /\ \E o \in ClientOutcomes("risk_analysis", Stage2Responses) :
         LET args == RiskAnalysisInputs
             called == AnalyzeRisksCalls(args[2])
             ret == analyze_risks(args[1], args[2], o)
             kept == IF StageFailed(ret) THEN RiskDefault ELSE ret
         IN /\ ReturnsFrom("risk_analysis", called, args)
            /\ raised' = IF called /\ o.raised THEN raised \cup {"risk_analysis"}
                          ELSE raised
            /\ \E fails \in FailureReportRaises(ret) :
                 IF fails
                 THEN risk_results' = ret /\ Return(ReviewFailed("UnicodeEncodeError"))
                 ELSE /\ risk_results' = kept
                      /\ IF LenRaises(Get(kept, "risk_analysis", EmptyList))
                         THEN Return(ReviewFailed("TypeError"))
                         ELSE Goto("language_clarity")
    /\ UNCHANGED <<contract_text, client_calls, clause_results, detected_clauses,
                   clarity_results, redline_results, prioritization, fnvars,
                   envvars>>

\* risk_analysis_agent.py line 166: the call is made for every text
CallLanguageClarity ==
    /\ CanIssue("language_clarity")
    /\ Issue("language_clarity")

\* lines 92-94
LanguageClarity ==
    /\ pc = "language_clarity"
    /\ \E o \in ClientOutcomes("language_clarity", Stage3Responses) :
         LET args == ClarityInputs
         IN /\ ReturnsFrom("language_clarity", TRUE, args)
            /\ raised' = IF o.raised THEN raised \cup {"language_clarity"}
                          ELSE raised
            /\ clarity_results' = assess_language_clarity(args[1], o)
    /\ Goto("redline_suggestions")
    /\ UNCHANGED <<contract_text, client_calls, clause_results, detected_clauses,
                   risk_results, redline_results, prioritization, fnvars, envvars>>

\* redline_suggester_agent.py line 115: the call is made once the prompt is built
CallRedlineSuggestions ==
    /\ CanIssue("redline_suggestions")
    /\ GenerateRedlinesCalls(RedlineInputs[2], RedlineInputs[3])
    /\ Issue("redline_suggestions")

\* lines 96-107
RedlineSuggestions ==
    /\ pc = "redline_suggestions"
    /\ \E o \in ClientOutcomes("redline_suggestions", Stage4Responses) :
         LET args == RedlineInputs
             called == GenerateRedlinesCalls(args[2], args[3])
             ret == generate_redlines(args[1], args[2], args[3], o)
             kept == IF StageFailed(ret) THEN RedlineDefault ELSE ret
         IN /\ ReturnsFrom("redline_suggestions", called, args)
            /\ raised' = IF called /\ o.raised
                          THEN raised \cup {"redline_suggestions"} ELSE raised
            /\ \E fails \in FailureReportRaises(ret) :
                 IF fails
                 THEN redline_results' = ret /\ Return(ReviewFailed("UnicodeEncodeError"))
                 ELSE /\ redline_results' = kept
                      /\ IF LenRaises(Get(kept, "redline_suggestions", EmptyList))
                         THEN Return(ReviewFailed("TypeError"))
                         ELSE Goto("change_prioritization")
    /\ UNCHANGED <<contract_text, client_calls, clause_results, detected_clauses,
                   risk_results, clarity_results, prioritization, fnvars, envvars>>

\* lines 109-113
Prioritization ==
    /\ pc = "change_prioritization"
    /\ LET args == PrioritizationInputs
       IN /\ ReturnsFrom("change_prioritization", FALSE, args)
          /\ prioritization' = prioritize_changes(args[1])
    /\ Goto("compile")
    /\ UNCHANGED <<contract_text, client_calls, raised, clause_results,
                   detected_clauses, risk_results, clarity_results, redline_results,
                   fnvars, envvars>>

\* lines 115-140
Compile ==
    /\ pc = "compile"
    /\ LET next_steps == _generate_next_steps(risk_results, redline_results)
       IN IF IsRaised(next_steps)
          THEN Return(ReviewFailed(next_steps.v))
          ELSE Return(FinalResults(clause_results, risk_results, clarity_results,
                                   redline_results, prioritization, next_steps))
    /\ UNCHANGED <<contract_text, client_calls, stages_run, in_flight, stage_args,
                   raised, locals, fnvars, envvars>>

Next ==
    \/ Validate
    \/ CallClauseDetection
    \/ ClauseDetection
    \/ CallRiskAnalysis
    \/ RiskAnalysis
    \/ CallLanguageClarity
    \/ LanguageClarity
    \/ CallRedlineSuggestions
    \/ RedlineSuggestions
    \/ Prioritization
    \/ Compile

Spec == Init /\ [][Next]_vars

\* review_contract runs on: a step that can be taken is taken, and a client call
\* that was issued returns or raises
SpecFair == Spec /\ WF_vars(Next)

(***************************************************************************)
(* A review as one value: the review in progress can be set aside and      *)
(* another one started on a new ContractReviewCrew.                        *)
(***************************************************************************)
\* a review about to enter review_contract
Fresh(id, text, script) ==
    [review |-> id, pc |-> "validate", contract_text |-> text,
     client_calls |-> <<>>, stages_run |-> <<>>, in_flight |-> {},
     stage_args |-> NoArgs, raised |-> {}, clause_results |-> JNull,
     detected_clauses |-> JNull, risk_results |-> JNull,
     clarity_results |-> JNull, redline_results |-> JNull,
     prioritization |-> JNull, result |-> JNull, stub |-> script]

\* the review in progress
Current ==
    [review |-> review, pc |-> pc, contract_text |-> contract_text,
     client_calls |-> client_calls, stages_run |-> stages_run,
     in_flight |-> in_flight, stage_args |-> stage_args, raised |-> raised,
     clause_results |-> clause_results, detected_clauses |-> detected_clauses,
     risk_results |-> risk_results, clarity_results |-> clarity_results,
     redline_results |-> redline_results, prioritization |-> prioritization,
     result |-> result, stub |-> stub]

Resume(r) ==
    /\ review' = r.review
    /\ pc' = r.pc
    /\ contract_text' = r.contract_text
    /\ client_calls' = r.client_calls
    /\ stages_run' = r.stages_run
    /\ in_flight' = r.in_flight
    /\ stage_args' = r.stage_args
    /\ raised' = r.raised
    /\ clause_results' = r.clause_results
    /\ detected_clauses' = r.detected_clauses
    /\ risk_results' = r.risk_results
    /\ clarity_results' = r.clarity_results
    /\ redline_results' = r.redline_results
    /\ prioritization' = r.prioritization
    /\ result' = r.result
    /\ stub' = r.stub

(***************************************************************************)
(* One review whose client outcomes are fixed before it starts: what each  *)
(* stage's client will answer is known beside what the review made of it.  *)
(***************************************************************************)
CannedScripts ==
    { [canned |-> TRUE, clause_detection |-> o1, risk_analysis |-> o2,
       language_clarity |-> o3, redline_suggestions |-> o4] :
        o1 \in Outcomes(Stage1Responses), o2 \in Outcomes(Stage2Responses),
        o3 \in Outcomes(Stage3Responses), o4 \in Outcomes(Stage4Responses) }

InitCanned ==
    /\ contract_text = <<"a">>
    /\ stub \in CannedScripts
    /\ pc = "validate"
    /\ client_calls = <<>>
    /\ stages_run = <<>>
    /\ in_flight = {}
    /\ stage_args = NoArgs
    /\ review = "first"
    /\ other = NoReview
    /\ raised = {}
    /\ clause_results = JNull
    /\ detected_clauses = JNull
    /\ risk_results = JNull
    /\ clarity_results = JNull
    /\ redline_results = JNull
    /\ prioritization = JNull
    /\ result = JNull
    /\ fn = "none"
    /\ fn_args = <<>>
    /\ fn_ret = NotReturned
    /\ prev_args = <<>>
    /\ prev_ret = NotReturned

SpecCanned == InitCanned /\ [][Next]_vars

(***************************************************************************)
(* The review is run once more on a new ContractReviewCrew, with the same  *)
(* text and the same client outcomes but for the one of language clarity.  *)
(***************************************************************************)
ChangeClarity ==
    /\ pc = "done" /\ review = "first" /\ other = NoReview
    /\ \E o \in Outcomes(Stage3Responses) \ {stub["language_clarity"]} :
         Resume(Fresh("varied", contract_text,
                      [stub EXCEPT !["language_clarity"] = o]))
    /\ other' = Current
    /\ UNCHANGED fnvars

NextVaried ==
    \/ Next
    \/ ChangeClarity

SpecVaried == InitCanned /\ [][NextVaried]_vars

(***************************************************************************)
(* The derivations called on their own: the arguments are drawn from       *)
(* bounded sets, the call returns, and the function may be called again.   *)
(***************************************************************************)
Counts == {JInt(n) : n \in 0..MaxCount}
Scores == {JInt(n) : n \in 0..MaxScore}

\* every dict that gives some of `keys` a value of `values`
DictsOver(keys, values) == {JDict(f) : f \in UNION {[K -> values] : K \in SUBSET keys}}

RiskSummaries ==
    DictsOver({"high_severity_count", "total_risks_identified"}, Counts)
        \cup { JDict([high_severity_count |-> JStr(<<"3">>)]),
               JDict([high_severity_count |-> JInt(0),
                      total_risks_identified |-> JNull]),
               JDict([high_severity_count |-> JBool(TRUE)]),
               JDict([high_severity_count |-> JBool(FALSE),
                      total_risks_identified |-> JBool(TRUE)]),
               EmptyList }

CoverageCores ==
    { <<>>, <<"c","o","m","p","r","e","h","e","n","s","i","v","e">>, <<"C","O","M","P","R","E","H","E","N","S","I","V","E">>, <<"C","o","m","p","r","e","h","e","n","s","i","v","e">>, <<"c","o","m","p","r","e","h","e","n","s","i","v">>,
      <<"a","d","e","q","u","a","t","e">>, <<"A","D","E","Q","U","A","T","E">>, <<"A","d","e","q","u","a","t","e">>, <<"d","e","q","u","a","t","e">>,
      <<"a","d","e","q","u","a","t","e",","," ","n","o","t"," ","c","o","m","p","r","e","h","e","n","s","i","v","e">>, <<"g","o","o","d">>,
      <<"C","O","M","P","R","E","H","E","N","S","U+0130","V","E">>,
      <<"c","o","m","p","r","e","h","e","n","s","i","v","e","U+212A">>,
      <<"É","A","D","E","Q","U","A","T","E","U+03A3">> }

CoverageTexts ==
    CoverageCores \cup {<<"i","n">> \o c \o <<".">> :
                            c \in {<<"C","o","m","p","r","e","h","e","n","s","i","v","e">>, <<"a","d","e","q","u","a","t","e">>, <<"d","e","q","u","a","t","e">>}}

QualityArgs ==
    { <<cs, rs>> :
        cs \in DictsOver({"coverage_assessment"}, {JStr(c) : c \in CoverageTexts}),
        rs \in DictsOver({"overall_risk_score"}, Scores) }
      \cup { <<JDict([coverage_assessment |-> JNull]), EmptyDict>>,
             <<JDict([coverage_assessment |-> JStr(<<"a","d","e","q","u","a","t","e">>)]),
               JDict([overall_risk_score |-> JStr(<<"2">>)])>>,
             <<JDict([coverage_assessment |-> JStr(<<"C","o","m","p","r","e","h","e","n","s","i","v","e">>)]),
               JDict([overall_risk_score |-> JBool(TRUE)])>>,
             <<EmptyDict, JNull>> }

\* the stage results _generate_next_steps reads its two counts from
NextStepsArgs ==
    { <<rr, rd>> :
        rr \in DictsOver({"overall_risk_assessment"},
                         DictsOver({"high_severity_count"}, Counts)),
        rd \in DictsOver({"summary"}, DictsOver({"critical_changes"}, Counts)) }
      \cup { <<JDict([overall_risk_assessment |-> JNull]), EmptyDict>>,
             <<EmptyDict,
               JDict([summary |-> JDict([critical_changes |-> JStr(<<"2">>)])])>>,
             <<JDict([overall_risk_assessment |->
                          JDict([high_severity_count |-> JBool(TRUE)])]),
               EmptyDict>>,
             <<JNull, EmptyDict>> }

\* a suggestion record is known to prioritize_changes by its priority only
Priorities ==
    { <<"C","r","i","t","i","c","a","l">>, <<"H","i","g","h">>,
      <<"l","o","w">>, <<"H","I","G","H">>, <<"m","e","d","i","u","m">>,
      <<"H","U+0130","G","H">> }

SuggestionRecords == DictsOver({"priority"}, {JStr(p) : p \in Priorities})

SuggestionLists ==
    UNION { [1..n -> SuggestionRecords] : n \in 0..MaxSuggestions }

PrioritizeArgs ==
    { <<JList(l)>> : l \in SuggestionLists }
      \cup { <<JList(<<JDict([priority |-> JNull])>>)>>,
             <<JList(<<JDict([priority |-> JStr(<<"C","r","i","t","i","c","a","l">>)]),
                       JDict([priority |-> JInt(1)])>>)>>,
             <<JList(<<JStr(<<"H","i","g","h">>)>>)>>,
             <<JNull>>,
             <<JBool(TRUE)>> }

\* a detected clause is known to get_clause_recommendations by its clause_type
ClauseOfType(clause_type) == JDict([clause_type |-> JStr(clause_type)])

ClauseTypes ==
    { <<"I","n","d","e","m","n","i","t","y">>, <<"T","E","R","M","I","N","A","T","I","O","N">>,
      <<"U+0130","N","D","E","M","N","I","T","Y">>,
      <<"l","i","m","i","t","a","t","i","o","n"," ","o","f"," ","l","i","a","b","i","l","i","t","y">>,
      <<"L","i","a","b","i","l","i","t","y"," ","L","i","m","i","t","a","t","i","o","n">>,
      <<"G","o","v","e","r","n","i","n","g"," ","L","a","w">>, <<"D","i","s","p","u","t","e"," ","R","e","s","o","l","u","t","i","o","n"," ","P","r","o","c","e","d","u","r","e">> }

RecommendationArgs ==
    { <<JList(l)>> : l \in UNION { [1..n -> {ClauseOfType(ct) : ct \in ClauseTypes}
                                              \cup {EmptyDict}] : n \in 0..2 } }
      \cup { <<JList([k \in 1..Len(EssentialClauses) |->
                         ClauseOfType(EssentialClauses[k])])>>,
             <<JList(<<JDict([clause_type |-> JNull])>>)>>,
             <<JList(<<JStr(<<"I","n","d","e","m","n","i","t","y">>)>>)>>,
             <<JNull>> }

ArgsOf(f) ==
    CASE f = "_determine_overall_risk_level" -> {<<rs>> : rs \in RiskSummaries}
      [] f = "_assess_contract_quality" -> QualityArgs
      [] f = "_generate_next_steps" -> NextStepsArgs
      [] f = "prioritize_changes" -> PrioritizeArgs
      [] f = "get_clause_recommendations" -> RecommendationArgs

\* the derivations whose claims compare one call with the next
Derivations == {"_determine_overall_risk_level", "_assess_contract_quality"}

Functions ==
    Derivations \cup {"_generate_next_steps", "prioritize_changes",
                      "get_clause_recommendations"}

InitFn ==
    /\ pc = "off"
    /\ contract_text = <<>>
    /\ client_calls = <<>>
    /\ stages_run = <<>>
    /\ in_flight = {}
    /\ stage_args = NoArgs
    /\ stub = NoStub
    /\ review = "none"
    /\ other = NoReview
    /\ raised = {}
    /\ clause_results = JNull
    /\ detected_clauses = JNull
    /\ risk_results = JNull
    /\ clarity_results = JNull
    /\ redline_results = JNull
    /\ prioritization = JNull
    /\ result = JNull
    /\ fn \in Functions
    /\ fn_args \in ArgsOf(fn)
    /\ fn_ret = NotReturned
    /\ prev_args = <<>>
    /\ prev_ret = NotReturned

DetermineRiskLevel ==
    /\ fn = "_determine_overall_risk_level"
    /\ fn_ret = NotReturned
    /\ fn_ret' = _determine_overall_risk_level(fn_args[1])
    /\ UNCHANGED <<runvars, envvars, fn, fn_args, prev_args, prev_ret>>

AssessQuality ==
    /\ fn = "_assess_contract_quality"
    /\ fn_ret = NotReturned
    /\ fn_ret' = _assess_contract_quality(fn_args[1], fn_args[2])
    /\ UNCHANGED <<runvars, envvars, fn, fn_args, prev_args, prev_ret>>

GenerateNextSteps ==
    /\ fn = "_generate_next_steps"
    /\ fn_ret = NotReturned
    /\ fn_ret' = _generate_next_steps(fn_args[1], fn_args[2])
    /\ UNCHANGED <<runvars, envvars, fn, fn_args, prev_args, prev_ret>>

PrioritizeChanges ==
    /\ fn = "prioritize_changes"
    /\ fn_ret = NotReturned
    /\ fn_ret' = prioritize_changes(fn_args[1])
    /\ UNCHANGED <<runvars, envvars, fn, fn_args, prev_args, prev_ret>>

GetClauseRecommendations ==
    /\ fn = "get_clause_recommendations"
    /\ fn_ret = NotReturned
    /\ fn_ret' = get_clause_recommendations(fn_args[1])
    /\ UNCHANGED <<runvars, envvars, fn, fn_args, prev_args, prev_ret>>

CallAgain ==
    /\ fn \in Derivations
    /\ fn_ret # NotReturned
    /\ prev_args' = fn_args
    /\ prev_ret' = fn_ret
    /\ fn_args' \in ArgsOf(fn)
    /\ fn_ret' = NotReturned
    /\ UNCHANGED <<runvars, envvars, fn>>

NextFn ==
    \/ DetermineRiskLevel
    \/ AssessQuality
    \/ GenerateNextSteps
    \/ PrioritizeChanges
    \/ GetClauseRecommendations
    \/ CallAgain

SpecFn == InitFn /\ [][NextFn]_vars

(***************************************************************************)
(* Properties of review_contract, checked under Spec.                      *)
(***************************************************************************)
Done == pc = "done"
Succeeded == Done /\ result.v["success"] = JBool(TRUE)
Slot(stage) == result.v["contract_analysis"].v[stage]
IsBlank(text) == \A i \in 1..Len(text) : text[i] \in Whitespace
NonEmptyStr(x) == IsStr(x) /\ Len(x.v) > 0
\* stage 1 returned an object without an error key whose clause list could be read
Stage1Succeeded ==
    /\ clause_results # JNull
    /\ ~HasKey(clause_results, "error")
    /\ ~LenRaises(Get(clause_results, "detected_clauses", EmptyList))

\* C1: for an empty or whitespace-only contract text the run makes no call of
\* any inference client, at any point, and it returns success false with a
\* non-empty error string.
C1_BlankTextNoCall ==
    IsBlank(contract_text) =>
        /\ client_calls = <<>>
        /\ stages_run = <<>>
        /\ pc \in {"validate", "done"}
        /\ Done => /\ result.v["success"] = JBool(FALSE)
                   /\ HasKey(result, "error")
                   /\ NonEmptyStr(result.v["error"])

C1_Witness ==
    /\ Done
    /\ Len(contract_text) > 0
    /\ IsBlank(contract_text)
    /\ result.v["success"] = JBool(FALSE)

\* C2 (as claimed): when the inference call of clause detection raises, the
\* review returns success false with the error string of stage 1 ("Failed to
\* detect clauses: ...") as its top-level error, no other client is called and
\* no later stage, prioritization included, is run.
C2_Stage1RaiseShortCircuits ==
    "clause_detection" \in raised =>
        /\ Done
        /\ result.v["success"] = JBool(FALSE)
        /\ result.v["error"] = clause_results.v["error"]
        /\ \E e \in ClientErrors :
              result.v["error"] = JStr(<<"Failed to detect clauses: ", e>>)
        /\ client_calls = <<"clause_detection">>
        /\ stages_run = <<"clause_detection">>
        /\ prioritization = JNull

\* C3 (as claimed): when clause detection succeeded and the inference call of
\* risk analysis raised, the review returns success true and the risk_analysis
\* slot is {risk_analysis: [], overall_risk_assessment: {}}.
C3_Stage2RaiseStillSucceeds ==
    (Done /\ Stage1Succeeded /\ "risk_analysis" \in raised) =>
        /\ result.v["success"] = JBool(TRUE)
        /\ Slot("risk_analysis") =
               JDict([risk_analysis |-> EmptyList,
                      overall_risk_assessment |-> EmptyDict])

\* C4 (as claimed): every result has a boolean success; with success true all
\* five slots, executive_summary and next_steps are there; with success false
\* there is a non-empty error string and neither contract_analysis nor
\* executive_summary.
C4_ResultShape ==
    Done =>
        /\ HasKey(result, "success")
        /\ result.v["success"].t = "bool"
        /\ \/ /\ result.v["success"] = JBool(TRUE)
              /\ HasKey(result, "contract_analysis")
              /\ \A i \in 1..Len(AllStages) :
                    /\ HasKey(result.v["contract_analysis"], AllStages[i])
                    /\ Slot(AllStages[i]) # JNull
              /\ HasKey(result, "executive_summary")
              /\ HasKey(result, "next_steps")
           \/ /\ result.v["success"] = JBool(FALSE)
              /\ HasKey(result, "error")
              /\ NonEmptyStr(result.v["error"])
              /\ ~HasKey(result, "contract_analysis")
              /\ ~HasKey(result, "executive_summary")

\* C5 (as claimed): success false comes only from a blank text or a failed
\* stage 1; with a text that is not blank and a successful stage 1 the result
\* has success true whatever stages 2, 3 and 4 raise or return.
C5_OnlyStage1Fails ==
    (Done /\ ~IsBlank(contract_text) /\ Stage1Succeeded) =>
        result.v["success"] = JBool(TRUE)

\* C6 (as claimed): in the report, the slot of a stage 2, 3 or 4 whose
\* inference call failed holds an error string next to the degraded default,
\* and the top-level result has no error field.
C6_FailedStageSlotHasError ==
    Succeeded =>
        /\ \A stage \in raised : HasKey(Slot(stage), "error")
        /\ ~HasKey(result, "error")

\* C7 (as claimed): in a run where stage 1 succeeded every later stage is
\* executed exactly once, whichever of stages 2, 3 and 4 failed, and the run
\* ends with success true.
C7_SoftFailuresNeverAbort ==
    (Done /\ Stage1Succeeded) =>
        /\ stages_run = AllStages
        /\ result.v["success"] = JBool(TRUE)

(***************************************************************************)
(* Properties of the derivations, checked under SpecFn.                    *)
(***************************************************************************)
Returned(f) == fn = f /\ fn_ret # NotReturned
\* the count under `key`, 0 when the key is missing
CountOf(d, key) == IF HasKey(d, key) THEN d.v[key].v ELSE 0
IsCountOrMissing(d, key) ==
    /\ IsDict(d)
    /\ HasKey(d, key) => (d.v[key].t = "int" /\ d.v[key].v >= 0)
HasCounts(risk_summary) ==
    /\ IsCountOrMissing(risk_summary, "high_severity_count")
    /\ IsCountOrMissing(risk_summary, "total_risks_identified")

RuleLevel(high, total) ==
    IF high >= 3 THEN "HIGH"
    ELSE IF high >= 1 \/ total >= 5 THEN "MEDIUM"
    ELSE IF total >= 1 THEN "LOW"
    ELSE "MINIMAL"

\* C8: for non-negative integer counts, a missing count taken as 0, the level
\* is HIGH if high >= 3, else MEDIUM if high >= 1 or total >= 5, else LOW if
\* total >= 1, else MINIMAL; (0,0) gives MINIMAL, (0,1) LOW, (0,5) MEDIUM,
\* (1,1) MEDIUM and (3,3) HIGH.
C8_RiskLevelRule ==
    (Returned("_determine_overall_risk_level") /\ HasCounts(fn_args[1])) =>
        LET high == CountOf(fn_args[1], "high_severity_count")
            total == CountOf(fn_args[1], "total_risks_identified")
        IN /\ fn_ret = JStr(<<RuleLevel(high, total)>>)
           /\ (high = 0 /\ total = 0) => fn_ret = JStr(<<"MINIMAL">>)
           /\ (high = 0 /\ total = 1) => fn_ret = JStr(<<"LOW">>)
           /\ (high = 0 /\ total = 5) => fn_ret = JStr(<<"MEDIUM">>)
           /\ (high = 1 /\ total = 1) => fn_ret = JStr(<<"MEDIUM">>)
           /\ (high = 3 /\ total = 3) => fn_ret = JStr(<<"HIGH">>)

C8_Witness ==
    /\ Returned("_determine_overall_risk_level")
    /\ IsDict(fn_args[1])
    /\ ~HasKey(fn_args[1], "high_severity_count")
    /\ HasKey(fn_args[1], "total_risks_identified")
    /\ CountOf(fn_args[1], "total_risks_identified") = 5
    /\ fn_ret = JStr(<<"MEDIUM">>)

LevelRank(level) ==
    CASE level = JStr(<<"MINIMAL">>) -> 0
      [] level = JStr(<<"LOW">>) -> 1
      [] level = JStr(<<"MEDIUM">>) -> 2
      [] level = JStr(<<"HIGH">>) -> 3

\* C9: of two calls with the same total_risks_identified, the one with the
\* smaller or equal high_severity_count never gets the greater level, in the
\* order MINIMAL < LOW < MEDIUM < HIGH.
C9_RiskLevelMonotone ==
    ( /\ Returned("_determine_overall_risk_level")
      /\ prev_ret # NotReturned
      /\ HasCounts(fn_args[1])
      /\ HasCounts(prev_args[1])
      /\ CountOf(prev_args[1], "total_risks_identified")
             = CountOf(fn_args[1], "total_risks_identified")
      /\ CountOf(prev_args[1], "high_severity_count")
             <= CountOf(fn_args[1], "high_severity_count") )
    => LevelRank(prev_ret) <= LevelRank(fn_ret)

C9_Witness ==
    /\ Returned("_determine_overall_risk_level")
    /\ prev_ret = JStr(<<"LOW">>)
    /\ fn_ret = JStr(<<"HIGH">>)
    /\ HasCounts(fn_args[1])
    /\ HasCounts(prev_args[1])
    /\ CountOf(prev_args[1], "total_risks_identified") = 4
    /\ CountOf(fn_args[1], "total_risks_identified") = 4
    /\ CountOf(prev_args[1], "high_severity_count") = 0
    /\ CountOf(fn_args[1], "high_severity_count") = 3

\* the letters of the words the code compares with, and their capitals
SmallLetters == <<"a","b","c","d","e","f","g","h","i","j","k","l","m",
                  "n","o","p","q","r","s","t","u","v","w","x","y","z">>
CapitalLetters == <<"A","B","C","D","E","F","G","H","I","J","K","L","M",
                    "N","O","P","Q","R","S","T","U","V","W","X","Y","Z">>
\* c and d are the same letter, d in lower case
SameLetter(c, d) ==
    c = d \/ \E k \in 1..Len(SmallLetters) :
                 CapitalLetters[k] = c /\ SmallLetters[k] = d
\* `word` (in lower case) occurs in `text` in some letter case
OccursAnyCase(text, word) ==
    \E i \in 0..(Len(text) - Len(word)) :
        \A j \in 1..Len(word) : SameLetter(text[i + j], word[j])

RuleQuality(text, score) ==
    IF OccursAnyCase(text, Comprehensive) /\ score < 3 THEN "GOOD"
    ELSE IF OccursAnyCase(text, Adequate) /\ score < 5 THEN "FAIR"
    ELSE "NEEDS_IMPROVEMENT"

\* C10: with a coverage text (empty when missing) and an integer risk score (0
\* when missing), the quality is GOOD if the text contains "comprehensive" in
\* any letter case and the score is below 3, else FAIR if it contains
\* "adequate" in any letter case and the score is below 5, else
\* NEEDS_IMPROVEMENT; the test is containment, not equality.
C10_QualityRule ==
    ( /\ Returned("_assess_contract_quality")
      /\ HasKey(fn_args[1], "coverage_assessment")
             => IsStr(fn_args[1].v["coverage_assessment"])
      /\ IsCountOrMissing(fn_args[2], "overall_risk_score") )
    => LET text == IF HasKey(fn_args[1], "coverage_assessment")
                   THEN fn_args[1].v["coverage_assessment"].v ELSE <<>>
           score == CountOf(fn_args[2], "overall_risk_score")
       IN fn_ret = JStr(<<RuleQuality(text, score)>>)

C10_Witness ==
    /\ Returned("_assess_contract_quality")
    /\ HasKey(fn_args[1], "coverage_assessment")
    /\ fn_args[1].v["coverage_assessment"] = JStr(<<"i","n","C","o","m","p","r","e","h","e","n","s","i","v","e",".">>)
    /\ ~HasKey(fn_args[2], "overall_risk_score")
    /\ fn_ret = JStr(<<"GOOD">>)

\* the count a stage result holds under `outer`.`key`, 0 where a key is missing
NestedCount(d, outer, key) == CountOf(Get(d, outer, EmptyDict), key)
NestedIsCount(d, outer, key) ==
    /\ IsDict(d)
    /\ IsDict(Get(d, outer, EmptyDict))
    /\ IsCountOrMissing(Get(d, outer, EmptyDict), key)

CriticalInstruction(n) ==
    JStr(<<"Address ">> \o Decimal(n)
             \o <<" critical redline suggestions before proceeding">>)
HighInstruction(n) ==
    JStr(<<"Mitigate ">> \o Decimal(n) \o <<" high-severity risks identified">>)

\* C11: next_steps is the critical-changes instruction (naming the count) if
\* and only if critical_changes > 0, then the high-severity instruction (naming
\* the count) if and only if high_severity_count > 0, then the three fixed
\* instructions: its length is 3, 4 or 5, its last three entries are always the
\* same, and the critical-changes instruction precedes the high-severity one.
C11_NextStepsRecipe ==
    ( /\ Returned("_generate_next_steps")
      /\ NestedIsCount(fn_args[1], "overall_risk_assessment", "high_severity_count")
      /\ NestedIsCount(fn_args[2], "summary", "critical_changes") )
    => LET high == NestedCount(fn_args[1], "overall_risk_assessment",
                               "high_severity_count")
           critical == NestedCount(fn_args[2], "summary", "critical_changes")
           steps == fn_ret.v
           n == Len(steps)
       IN /\ IsList(fn_ret)
          /\ n = 3 + (IF critical > 0 THEN 1 ELSE 0) + (IF high > 0 THEN 1 ELSE 0)
          /\ SubSeq(steps, n - 2, n) =
                 <<JStr(<<"Review all redline suggestions with legal counsel">>),
                   JStr(<<"Negotiate key terms with counterparty">>),
                   JStr(<<"Obtain final legal approval before signing">>)>>
          /\ critical > 0 => steps[1] = CriticalInstruction(critical)
          /\ high > 0 => steps[n - 3] = HighInstruction(high)

C11_Witness ==
    /\ Returned("_generate_next_steps")
    /\ NestedIsCount(fn_args[1], "overall_risk_assessment", "high_severity_count")
    /\ NestedIsCount(fn_args[2], "summary", "critical_changes")
    /\ NestedCount(fn_args[1], "overall_risk_assessment", "high_severity_count") = 3
    /\ NestedCount(fn_args[2], "summary", "critical_changes") = 2
    /\ Len(fn_ret.v) = 5
    /\ fn_ret.v[1] = CriticalInstruction(2)
    /\ fn_ret.v[2] = HighInstruction(3)

\* `p` and `word` (in lower case) are equal up to letter case
EqualsAnyCase(p, word) ==
    Len(p) = Len(word) /\ \A j \in 1..Len(word) : SameLetter(p[j], word[j])
\* a list of records whose priority, where present, is a string
HasStringPriorities(suggestions) ==
    /\ IsList(suggestions)
    /\ \A i \in 1..Len(suggestions.v) :
          /\ IsDict(suggestions.v[i])
          /\ HasKey(suggestions.v[i], "priority")
                 => IsStr(suggestions.v[i].v["priority"])
PriorityOf(item) ==
    IF HasKey(item, "priority") THEN item.v["priority"].v ELSE <<>>
Occurrences(seq, x) == Cardinality({i \in 1..Len(seq) : seq[i] = x})
Bucket(ret, phase) == ret.v["implementation_phases"].v[phase].v["changes"].v
PhaseLevels ==
    { <<"phase_1_critical", <<"c","r","i","t","i","c","a","l">>>>,
      <<"phase_2_high", <<"h","i","g","h">>>>,
      <<"phase_3_medium", <<"m","e","d","i","u","m">>>> }
ExampleSuggestions ==
    JList(<<JDict([priority |-> JStr(<<"C","r","i","t","i","c","a","l">>)]),
            JDict([priority |-> JStr(<<"H","i","g","h">>)]),
            JDict([priority |-> JStr(<<"l","o","w">>)]),
            JDict([priority |-> JStr(<<"H","I","G","H">>)])>>)

\* C12: given records whose priority is a string or absent, prioritize_changes
\* partitions them: a record whose priority equals critical, high or medium up
\* to letter case is in the bucket of that level as many times as it is in the
\* input and in no other bucket; a record with priority low, another string
\* or none is in no bucket; the priorities Critical, High, low, HIGH give
\* buckets of 1, 2 and 0 records.
C12_PrioritizePartitions ==
    (Returned("prioritize_changes") /\ HasStringPriorities(fn_args[1]))
    => /\ IsDict(fn_ret) /\ ~HasKey(fn_ret, "error")
       /\ \A pl \in PhaseLevels :
             /\ \A i \in 1..Len(fn_args[1].v) :
                   LET item == fn_args[1].v[i]
                   IN Occurrences(Bucket(fn_ret, pl[1]), item) =
                        IF EqualsAnyCase(PriorityOf(item), pl[2])
                        THEN Occurrences(fn_args[1].v, item) ELSE 0
             /\ \A j \in 1..Len(Bucket(fn_ret, pl[1])) :
                   Occurrences(fn_args[1].v, Bucket(fn_ret, pl[1])[j]) > 0
       /\ fn_args[1] = ExampleSuggestions
             => /\ Len(Bucket(fn_ret, "phase_1_critical")) = 1
                /\ Len(Bucket(fn_ret, "phase_2_high")) = 2
                /\ Len(Bucket(fn_ret, "phase_3_medium")) = 0

C12_Witness ==
    /\ Returned("prioritize_changes")
    /\ fn_args[1] = ExampleSuggestions
    /\ Bucket(fn_ret, "phase_1_critical") = <<ExampleSuggestions.v[1]>>
    /\ Bucket(fn_ret, "phase_2_high") =
           <<ExampleSuggestions.v[2], ExampleSuggestions.v[4]>>
    /\ Bucket(fn_ret, "phase_3_medium") = <<>>

\* C13: given records whose priority is a string or absent, the roadmap of
\* prioritize_changes has must_have_count = size of the critical bucket,
\* high_priority_count = size of the high bucket and total_items = length of
\* the whole input, which may exceed the sum of the bucket sizes.
C13_RoadmapCounts ==
    (Returned("prioritize_changes") /\ HasStringPriorities(fn_args[1]))
    => LET roadmap == fn_ret.v["negotiation_roadmap"].v
       IN /\ roadmap["must_have_count"] =
                 JInt(Len(Bucket(fn_ret, "phase_1_critical")))
          /\ roadmap["high_priority_count"] =
                 JInt(Len(Bucket(fn_ret, "phase_2_high")))
          /\ roadmap["total_items"] = JInt(Len(fn_args[1].v))

C13_Witness ==
    /\ Returned("prioritize_changes")
    /\ fn_args[1] = ExampleSuggestions
    /\ fn_ret.v["negotiation_roadmap"].v["must_have_count"] = JInt(1)
    /\ fn_ret.v["negotiation_roadmap"].v["high_priority_count"] = JInt(2)
    /\ fn_ret.v["negotiation_roadmap"].v["total_items"] = JInt(4)
    /\ 4 > Len(Bucket(fn_ret, "phase_1_critical"))
           + Len(Bucket(fn_ret, "phase_2_high"))
           + Len(Bucket(fn_ret, "phase_3_medium"))

PhaseLabels ==
    [phase_1_critical |-> <<"Address before any signing",
                            "Non-negotiable positions">>,
     phase_2_high |-> <<"Primary negotiation focus",
                        "Strong preference, willing to trade">>,
     phase_3_medium |-> <<"Secondary negotiation items",
                          "Nice to have improvements">>]
ThreeLabelledPhases(ret) ==
    /\ IsDict(ret) /\ HasKey(ret, "implementation_phases")
    /\ LET phases == ret.v["implementation_phases"]
       IN /\ IsDict(phases)
          /\ DOMAIN phases.v = DOMAIN PhaseLabels
          /\ \A ph \in DOMAIN PhaseLabels :
                /\ phases.v[ph].v["timeline"] = JStr(<<PhaseLabels[ph][1]>>)
                /\ phases.v[ph].v["negotiation_approach"] =
                       JStr(<<PhaseLabels[ph][2]>>)

\* C14: for every list of suggestion records, the empty list and records
\* without a usable priority included, prioritize_changes returns exactly
\* three phases with their fixed timeline and negotiation-approach labels.
C14_AlwaysThreePhases ==
    ( /\ Returned("prioritize_changes")
      /\ IsList(fn_args[1])
      /\ \A i \in 1..Len(fn_args[1].v) : IsDict(fn_args[1].v[i]) )
    => ThreeLabelledPhases(fn_ret)

\* C16 (as claimed): when the object stage 1, 2 or 4 returns has a field
\* missing or of an unexpected shape, review_contract does not fail the
\* review: with a text that is not blank, no call that raised and no error
\* key in the stage-1 object, the result has success true.
C16_MalformedObjectsTolerated ==
    ( /\ Done /\ ~IsBlank(contract_text) /\ raised = {}
      /\ clause_results # JNull /\ ~HasKey(clause_results, "error") )
    => result.v["success"] = JBool(TRUE)

IsPrefix(s, t) == Len(s) <= Len(t) /\ SubSeq(t, 1, Len(s)) = s
StageIndex(stage) == CHOOSE i \in 1..Len(AllStages) : AllStages[i] = stage
\* stages return in the fixed order, calls are issued in that order, a call is
\* issued once every stage before has returned, and one call is outstanding
StagesInOrder ==
    /\ IsPrefix(stages_run, AllStages)
    /\ \A i, j \in 1..Len(client_calls) :
          i < j => StageIndex(client_calls[i]) < StageIndex(client_calls[j])
    /\ Cardinality(in_flight) <= 1
    /\ \A stage \in in_flight :
          stages_run = SubSeq(AllStages, 1, StageIndex(stage) - 1)

\* C17 (as claimed): the stages run in the fixed order, a stage's call is
\* issued only after the call of the stage before has returned or failed, two
\* calls of a review are never outstanding, and after a successful stage 1 no
\* stage is skipped.
C17_FixedOrderNoSkip ==
    /\ StagesInOrder
    /\ (Done /\ Stage1Succeeded) => stages_run = AllStages

\* C18 (as claimed): no stage calls its client twice, and a run makes exactly
\* four calls when stage 1 succeeded, exactly one when stage 1 failed and none
\* on a blank text.
C18_CallCounts ==
    /\ \A stage \in StageNames : Occurrences(client_calls, stage) <= 1
    /\ Len(client_calls) <= 4
    /\ Done =>
          /\ IsBlank(contract_text) => Len(client_calls) = 0
          /\ (clause_results # JNull /\ HasKey(clause_results, "error"))
                 => Len(client_calls) = 1
          /\ Stage1Succeeded => Len(client_calls) = 4

Called(stage) == stage_args[stage] # <<>>

\* C20: stage 2 is given the detected_clauses of the stage-1 result; stage 3
\* the text alone; stage 4 the same detected_clauses and the stage-2 result as
\* review_contract holds it (the one the report shows), which after a failed
\* stage-2 call is {risk_analysis: [], overall_risk_assessment: {}}; stage 5
\* the redline_suggestions list of the stage-4 result alone, the empty list
\* after a failed stage-4 call.
C20_DataFlow ==
    LET clauses == Get(clause_results, "detected_clauses", EmptyList)
    IN /\ Called("risk_analysis")
             => stage_args["risk_analysis"] = <<contract_text, clauses>>
       /\ Called("language_clarity")
             => stage_args["language_clarity"] = <<contract_text>>
       /\ Called("redline_suggestions")
             => /\ stage_args["redline_suggestions"] =
                       <<contract_text, risk_results, clauses>>
                /\ "risk_analysis" \in raised
                       => stage_args["redline_suggestions"][2] =
                              JDict([risk_analysis |-> EmptyList,
                                     overall_risk_assessment |-> EmptyDict])
                /\ Succeeded
                       => stage_args["redline_suggestions"][2] = Slot("risk_analysis")
       /\ Called("change_prioritization")
             => /\ stage_args["change_prioritization"] =
                       <<Get(redline_results, "redline_suggestions", EmptyList)>>
                /\ "redline_suggestions" \in raised
                       => stage_args["change_prioritization"] = <<EmptyList>>

C20_Witness ==
    /\ Succeeded
    /\ {"risk_analysis", "redline_suggestions"} \subseteq raised
    /\ stage_args["risk_analysis"] = <<contract_text, JList(<<IndemnityClause>>)>>
    /\ stage_args["redline_suggestions"] =
           <<contract_text,
             JDict([risk_analysis |-> EmptyList, overall_risk_assessment |-> EmptyDict]),
             JList(<<IndemnityClause>>)>>
    /\ stage_args["change_prioritization"] = <<EmptyList>>

\* a result review_contract holds stays as it is
Kept(held) == held # JNull => held' = held

\* C21: once review_contract holds the result of a stage (after the
\* replacement of a failed one), no later stage and no derivation changes it,
\* and the stage's slot in the report is that result.
C21_RecordedOutputsKept ==
    /\ [][ /\ Kept(clause_results) /\ Kept(detected_clauses)
           /\ Kept(risk_results) /\ Kept(clarity_results)
           /\ Kept(redline_results) /\ Kept(prioritization) ]_vars
    /\ [](Succeeded =>
            /\ Slot("clause_detection") = clause_results
            /\ Slot("risk_analysis") = risk_results
            /\ Slot("language_clarity") = clarity_results
            /\ Slot("redline_suggestions") = redline_results
            /\ Slot("change_prioritization") = prioritization)

C21_Witness ==
    /\ Succeeded
    /\ "risk_analysis" \in raised
    /\ Slot("clause_detection") = Stage1Ok /\ clause_results = Stage1Ok
    /\ Slot("risk_analysis") = risk_results
    /\ risk_results = JDict([risk_analysis |-> EmptyList,
                             overall_risk_assessment |-> EmptyDict])
    /\ Slot("redline_suggestions") = Stage4Ok /\ redline_results = Stage4Ok
    /\ Slot("change_prioritization") = prioritization

\* the run ends, and no stage is entered twice
EndsWithoutRevisit ==
    /\ <>Done
    /\ [](\A stage \in StageNames : Occurrences(stages_run, stage) <= 1)

\* C22 (as claimed): when every client call returns or raises, every run of
\* review_contract ends, without entering a stage twice, either at the early
\* short-circuit (blank text, or failed stage 1) or at full completion after
\* the fifth stage.
C22_EndsAtShortCircuitOrCompletion ==
    /\ EndsWithoutRevisit
    /\ [](Done =>
            \/ IsBlank(contract_text) /\ stages_run = <<>>
            \/ stages_run = <<"clause_detection">>
                  /\ result.v["success"] = JBool(FALSE)
            \/ stages_run = AllStages)

\* a list of clause records whose clause_type, where present, is a string
HasStringClauseTypes(clauses) ==
    /\ IsList(clauses)
    /\ \A i \in 1..Len(clauses.v) :
          /\ IsDict(clauses.v[i])
          /\ HasKey(clauses.v[i], "clause_type")
                 => IsStr(clauses.v[i].v["clause_type"])
\* the essential name occurs, in some letter case, in no detected clause_type
NotDetected(essential, clauses) ==
    \A i \in 1..Len(clauses.v) :
        ~OccursAnyCase(Get(clauses.v[i], "clause_type", EmptyStr).v, Lower(essential))

\* C23 (as claimed): for every list of detected clauses
\* get_clause_recommendations returns a dict: missing_essential_clauses lists,
\* in the fixed order, the essential names that occur in no detected
\* clause_type whatever the letter case, recommendations has one entry for each
\* of them, and completeness_score is the percentage of the five essential
\* names that were found.
C23_RecommendationsForMissing ==
    (Returned("get_clause_recommendations") /\ HasStringClauseTypes(fn_args[1]))
    => /\ IsDict(fn_ret)
       /\ LET Absent(essential) == NotDetected(essential, fn_args[1])
              missing == SelectSeq(EssentialClauses, Absent)
          IN /\ fn_ret.v["missing_essential_clauses"] =
                    JList([k \in 1..Len(missing) |-> JStr(missing[k])])
             /\ Len(fn_ret.v["recommendations"].v) = Len(missing)
             /\ fn_ret.v["completeness_score"] =
                    JInt(((Len(EssentialClauses) - Len(missing)) * 100)
                             \div Len(EssentialClauses))

\* len(x) has no answer
Unsized(x) == x.t \in {"null", "int", "bool"}
\* reading the two counts of the next steps and comparing them with 0 fails
NextStepsFail ==
    LET risk_summary == Get(risk_results, "overall_risk_assessment", EmptyDict)
        redline_summary == Get(redline_results, "summary", EmptyDict)
    IN \/ ~IsDict(risk_summary)
       \/ ~IsDict(redline_summary)
       \/ ~IsInt(Get(risk_summary, "high_severity_count", JInt(0)))
       \/ ~IsInt(Get(redline_summary, "critical_changes", JInt(0)))
\* the error text of a failed stage cannot be written to stdout
Unwritable(stage_result) ==
    /\ IsDict(stage_result)
    /\ HasKey(stage_result, "error")
    /\ StdoutRaises(stage_result.v["error"]) = {TRUE}
\* an exception was raised in the try block of review_contract
RaisedInPipeline ==
    \/ Unwritable(clause_results)
    \/ Unwritable(risk_results)
    \/ Unwritable(redline_results)
    \/ /\ clause_results # JNull /\ ~HasKey(clause_results, "error")
       /\ Unsized(Get(clause_results, "detected_clauses", EmptyList))
    \/ /\ risk_results # JNull
       /\ Unsized(Get(risk_results, "risk_analysis", EmptyList))
    \/ /\ redline_results # JNull
       /\ Unsized(Get(redline_results, "redline_suggestions", EmptyList))
    \/ stages_run = AllStages /\ NextStepsFail

\* C24: no exception leaves review_contract: one raised in the pipeline after
\* the input check (by len() of a stage field, by the next-step generation or
\* by printing a stage's error text; the stage methods and prioritize_changes
\* catch their own) ends the run with success false and an error string
\* starting 'Contract review failed: '.
C24_NoExceptionEscapes ==
    /\ ~IsRaised(result)
    /\ (Done /\ RaisedInPipeline)
           => /\ IsDict(result)
              /\ result.v["success"] = JBool(FALSE)
              /\ IsStr(result.v["error"])
              /\ result.v["error"].v[1] = "Contract review failed: "

C24_Witness ==
    /\ Done
    /\ stages_run = AllStages
    /\ redline_results = JDict([redline_suggestions |-> EmptyList, summary |-> JNull])
    /\ result = JDict([error |-> JStr(<<"Contract review failed: ", "AttributeError">>),
                       success |-> JBool(FALSE)])

\* the stage method has returned
Ran(stage) == \E i \in 1..Len(stages_run) : stages_run[i] = stage
\* the stage's client was called, and its response was received and parsed
Received(stage) ==
    /\ \E i \in 1..Len(client_calls) : client_calls[i] = stage
    /\ ~stub[stage].raised
\* such a response carries the key error, whatever is under it
ErrorKeyed(stage) == Received(stage) /\ "error" \in DOMAIN stub[stage].body.v
\* the stage returned an object without the key error: the response itself
Clean(stage) == Received(stage) /\ ~ErrorKeyed(stage)

\* C25 (as claimed): stage 1, 2 or 4 counts as failed exactly when the object
\* it returned has the key error.  A received response with that key is handled
\* as a call that failed: after stage 1 the review returns success false at
\* once, after stage 2 or 4 the whole response is replaced by the empty
\* default; a response without it is kept whole.  Stage 3's result is kept and
\* the review goes on whether or not it has the key.
C25_FailedIffErrorKey ==
    /\ Ran("clause_detection") =>
          IF Clean("clause_detection")
          THEN /\ detected_clauses =
                      (IF "detected_clauses" \in DOMAIN clause_results.v
                       THEN clause_results.v["detected_clauses"] ELSE EmptyList)
               /\ clause_results = stub["clause_detection"].body
               /\ (Done /\ stages_run = <<"clause_detection">>)
                      => result.v["error"].v[1] = "Contract review failed: "
          ELSE /\ Done
               /\ stages_run = <<"clause_detection">>
               /\ detected_clauses = JNull
               /\ DOMAIN result.v = {"error", "success"}
               /\ result.v["success"] = JBool(FALSE)
    /\ Ran("risk_analysis") =>
          risk_results = IF Clean("risk_analysis")
                         THEN stub["risk_analysis"].body
                         ELSE JDict([risk_analysis |-> EmptyList,
                                     overall_risk_assessment |-> EmptyDict])
    /\ Ran("redline_suggestions") =>
          redline_results = IF Clean("redline_suggestions")
                            THEN stub["redline_suggestions"].body
                            ELSE JDict([redline_suggestions |-> EmptyList,
                                        new_clauses_needed |-> EmptyList])
    /\ Ran("language_clarity") =>
          /\ Received("language_clarity")
                 => clarity_results = stub["language_clarity"].body
          /\ stages_run = <<"clause_detection", "risk_analysis", "language_clarity">>
                 => pc = "redline_suggestions"
          /\ Succeeded => Slot("language_clarity") = clarity_results

\* the stage returned the agent's error object or a response with the key error
Failed(stage) == Ran(stage) /\ ~Clean(stage)
\* a field of one section of the executive summary, None when it is not there
Summarised(section, key) ==
    Get(Get(result.v["executive_summary"], section, EmptyDict), key, JNull)
NextStepsOf(report) == report.v["next_steps"].v
\* some next step starts with the word
StepStarting(word) ==
    \E i \in 1..Len(NextStepsOf(result)) : NextStepsOf(result)[i].v[1] = word
\* the risk part of the report reads as if the contract had no risk
ReadsAsNoRisk ==
    /\ Summarised("contract_overview", "risks_identified") = JInt(0)
    /\ Summarised("contract_overview", "high_severity_risks") = JInt(0)
    /\ Summarised("overall_assessment", "risk_level") = JStr(<<"MINIMAL">>)
    /\ Summarised("overall_assessment", "recommended_action")
           = JStr(<<"Review recommended">>)
    /\ Summarised("overall_assessment", "key_concerns") = EmptyList
    /\ ~StepStarting("Mitigate ")

\* C26: when stage 2 failed after a successful stage 1, the executive summary of
\* the report has risks_identified 0, high_severity_risks 0, risk_level MINIMAL,
\* recommended_action 'Review recommended' and no key concern, and no next step
\* asks to mitigate high-severity risks.
C26_RiskFailureReadsAsNoRisk ==
    (Succeeded /\ Failed("risk_analysis")) => ReadsAsNoRisk

\* the redline part of the report reads as if nothing had been suggested
ReadsAsNoRedline ==
    LET phases == Slot("change_prioritization").v["implementation_phases"].v
        roadmap == Slot("change_prioritization").v["negotiation_roadmap"].v
    IN /\ Slot("redline_suggestions") = JDict([redline_suggestions |-> EmptyList,
                                               new_clauses_needed |-> EmptyList])
       /\ DOMAIN phases = {"phase_1_critical", "phase_2_high", "phase_3_medium"}
       /\ \A phase \in DOMAIN phases : phases[phase].v["changes"] = EmptyList
       /\ roadmap["must_have_count"] = JInt(0)
       /\ roadmap["high_priority_count"] = JInt(0)
       /\ roadmap["total_items"] = JInt(0)
       /\ Summarised("contract_overview", "redline_suggestions") = JInt(0)
       /\ Summarised("contract_overview", "critical_changes_needed") = JInt(0)
       /\ ~StepStarting("Address ")

\* C27: when stage 4 failed, the redline slot of the report is exactly
\* {redline_suggestions: [], new_clauses_needed: []}, the prioritization has
\* three empty buckets and the counts must_have_count, high_priority_count and
\* total_items 0, the executive summary reports 0 redline suggestions and 0
\* critical changes, and no next step asks to address critical suggestions.
C27_RedlineFailureReadsAsNone ==
    (Succeeded /\ Failed("redline_suggestions")) => ReadsAsNoRedline

\* the parts of a report that the claim compares, None where the report has none
Part(report, key) == Get(report, key, JNull)
Analysis(report, stage) == Get(Get(report, "contract_analysis", EmptyDict), stage, JNull)

\* C28: the language-clarity result is put unchanged into
\* contract_analysis.language_clarity and nothing else depends on it: a run
\* that differs from another only in the outcome of stage 3 calls stage 4 with
\* the same arguments, returns the same success value and the same
\* risk_analysis, redline_suggestions, change_prioritization, executive_summary
\* and next_steps.
C28_ClarityInfluencesNothingElse ==
    /\ (Ran("language_clarity") /\ Received("language_clarity"))
           => clarity_results = stub["language_clarity"].body
    /\ Succeeded => Slot("language_clarity") = clarity_results
    /\ review = "varied" =>
          /\ Ran("redline_suggestions")
                 => stage_args["redline_suggestions"]
                        = other.stage_args["redline_suggestions"]
          /\ Done =>
                /\ Part(result, "success") = Part(other.result, "success")
                /\ Part(result, "error") = Part(other.result, "error")
                /\ \A stage \in {"risk_analysis", "redline_suggestions",
                                 "change_prioritization"} :
                       Analysis(result, stage) = Analysis(other.result, stage)
                /\ Part(result, "executive_summary")
                       = Part(other.result, "executive_summary")
                /\ Part(result, "next_steps") = Part(other.result, "next_steps")

C28_Witness ==
    /\ review = "varied"
    /\ Succeeded
    /\ other.result.v["success"] = JBool(TRUE)
    /\ stub["language_clarity"].raised
    /\ other.stub["language_clarity"] = [raised |-> FALSE, body |-> Stage3Ok]
    /\ Slot("language_clarity") # Analysis(other.result, "language_clarity")
    /\ Len(stage_args["redline_suggestions"]) = 3
    /\ Len(result.v["next_steps"].v) = 5

\* the arguments are a coverage text (or none) and an integer score (or none)
IsQualityCall(args) ==
    /\ HasKey(args[1], "coverage_assessment")
           => IsStr(args[1].v["coverage_assessment"])
    /\ IsCountOrMissing(args[2], "overall_risk_score")
CoverageOf(args) ==
    IF HasKey(args[1], "coverage_assessment")
    THEN args[1].v["coverage_assessment"].v ELSE <<>>
ScoreOf(args) == CountOf(args[2], "overall_risk_score")
QualityRank(quality) ==
    CASE quality = JStr(<<"GOOD">>) -> 3
      [] quality = JStr(<<"FAIR">>) -> 2
      [] quality = JStr(<<"NEEDS_IMPROVEMENT">>) -> 1
      [] OTHER -> 0

\* C29: a coverage text that contains "comprehensive" and not "adequate" is
\* never graded FAIR: it is GOOD with a risk score below 3 and
\* NEEDS_IMPROVEMENT with any score from 3 on; so with a score of 3 or 4 it is
\* graded lower than a text that contains "adequate" is with the same score.
C29_ComprehensiveNeverFair ==
    ( /\ Returned("_assess_contract_quality")
      /\ IsQualityCall(fn_args)
      /\ OccursAnyCase(CoverageOf(fn_args), Comprehensive)
      /\ ~OccursAnyCase(CoverageOf(fn_args), Adequate) )
    => /\ fn_ret # JStr(<<"FAIR">>)
       /\ ScoreOf(fn_args) < 3 => fn_ret = JStr(<<"GOOD">>)
       /\ ScoreOf(fn_args) >= 3 => fn_ret = JStr(<<"NEEDS_IMPROVEMENT">>)
       /\ ( /\ prev_ret # NotReturned
            /\ IsQualityCall(prev_args)
            /\ OccursAnyCase(CoverageOf(prev_args), Adequate)
            /\ ScoreOf(prev_args) = ScoreOf(fn_args)
            /\ ScoreOf(fn_args) \in {3, 4} )
          => /\ prev_ret = JStr(<<"FAIR">>)
             /\ QualityRank(fn_ret) < QualityRank(prev_ret)

C29_Witness ==
    /\ Returned("_assess_contract_quality")
    /\ IsQualityCall(fn_args)
    /\ CoverageOf(fn_args) = <<"C","o","m","p","r","e","h","e","n","s","i","v","e">>
    /\ ScoreOf(fn_args) = 4
    /\ fn_ret = JStr(<<"NEEDS_IMPROVEMENT">>)
    /\ prev_ret = JStr(<<"FAIR">>)
    /\ CoverageOf(prev_args) = <<"a","d","e","q","u","a","t","e">>
    /\ ScoreOf(prev_args) = 4

\* deriving the executive summary from the stage results raises
SummaryFails ==
    LET clause_summary == Get(clause_results, "clause_summary", EmptyDict)
        risk_summary == Get(risk_results, "overall_risk_assessment", EmptyDict)
        redline_summary == Get(redline_results, "summary", EmptyDict)
    IN \/ ~IsDict(clause_summary) \/ ~IsDict(risk_summary) \/ ~IsDict(redline_summary)
       \/ IsRaised(_determine_overall_risk_level(risk_summary))
       \/ IsRaised(_assess_contract_quality(clause_summary, risk_summary))

\* C30: a failure while the executive summary is derived stays inside it: when
\* the derivation raises and the next-step generation does not, the review
\* returns success true with its five stage slots and next_steps, and
\* executive_summary is {error, contract_overview: {}, overall_assessment: {}}.
C30_SummaryFailureIsolated ==
    (Done /\ stages_run = AllStages /\ SummaryFails /\ ~NextStepsFail)
    => /\ result.v["success"] = JBool(TRUE)
       /\ DOMAIN result.v = {"success", "contract_analysis", "executive_summary",
                             "next_steps"}
       /\ DOMAIN result.v["contract_analysis"].v = StageNames
       /\ IsList(result.v["next_steps"])
       /\ Len(result.v["next_steps"].v) >= 3
       /\ IsDict(result.v["executive_summary"])
       /\ DOMAIN result.v["executive_summary"].v
              = {"error", "contract_overview", "overall_assessment"}
       /\ result.v["executive_summary"].v["contract_overview"] = EmptyDict
       /\ result.v["executive_summary"].v["overall_assessment"] = EmptyDict
       /\ result.v["executive_summary"].v["error"].v[1]
              = "Failed to generate executive summary: "

C30_Witness ==
    /\ Succeeded
    /\ Get(Get(risk_results, "overall_risk_assessment", EmptyDict),
           "overall_risk_score", JNull) = JStr(<<"l","o","w">>)
    /\ result.v["executive_summary"]
           = JDict([error |-> JStr(<<"Failed to generate executive summary: ",
                                     "TypeError">>),
                    contract_overview |-> EmptyDict,
                    overall_assessment |-> EmptyDict])
    /\ Len(result.v["next_steps"].v) = 3
    /\ Slot("risk_analysis") = risk_results

====
